---- MODULE Spec2Model ----
(***************************************************************************)
(* A model of the tool-invocation runtime of the MCP servers               *)
(* (git-server.js, devtools-server.js, database-server.js and              *)
(* api-testing-server.js): the call-tool dispatcher with its error         *)
(* envelope, the promisified exec process runner, the git_blame parser     *)
(* and the generate_commit_message classifier.                             *)
(*                                                                         *)
(* JavaScript strings that the code inspects (prefixes, suffixes,          *)
(* substrings, split) are sequences of one-character strings; strings the  *)
(* code only passes through are TLA+ strings.  A JavaScript object is a    *)
(* function whose DOMAIN is the set of its defined properties.             *)
(***************************************************************************)
EXTENDS Integers, Sequences, FiniteSets, TLC

VARIABLES
    inv,        \* the call-tool invocation in flight (dispatcher)
    pgPool,     \* database-server.js: let pgPool = null
    mysqlPool,  \* database-server.js: let mysqlPool = null
    blame,      \* one run of the git_blame handler body after its exec
    commit,     \* one run of the generate_commit_message body after its exec
    validation, \* one run of the validate_response case body
    harness,    \* one call of makeRequest
    perf,       \* one run of the performance_test case body
    endpoint,   \* one run of the test_endpoint case body
    listed,     \* one server process: what its list-tools handler returned
    db          \* database-server.js: the call-tool handlers in flight

vars == <<inv, pgPool, mysqlPool, blame, commit, validation, harness, perf, endpoint,
          listed, db>>

(***************************************************************************)
(* Bounds of the model.                                                    *)
(***************************************************************************)
MaxFiles == 3       \* lines of `git diff --staged --name-status`
MaxLines == 5       \* lines of `git blame --line-porcelain`
MaxRequests == 3    \* performance_test: args.requests, and the length of a plan of answers

(***************************************************************************)
(* JavaScript string primitives used by the handlers.                      *)
(***************************************************************************)
StartsWith(s, p) == Len(s) >= Len(p) /\ SubSeq(s, 1, Len(p)) = p

EndsWith(s, p) == Len(s) >= Len(p) /\ SubSeq(s, Len(s) - Len(p) + 1, Len(s)) = p

Includes(s, p) == \E i \in 1..(Len(s) - Len(p) + 1) : SubSeq(s, i, i + Len(p) - 1) = p

UpperChars == <<"A","B","C","D","E","F","G","H","I","J","K","L","M",
                "N","O","P","Q","R","S","T","U","V","W","X","Y","Z">>

LowerChars == <<"a","b","c","d","e","f","g","h","i","j","k","l","m",
                "n","o","p","q","r","s","t","u","v","w","x","y","z">>

LowerChar(c) ==
    IF \E i \in 1..Len(UpperChars) : UpperChars[i] = c
    THEN LowerChars[CHOOSE i \in 1..Len(UpperChars) : UpperChars[i] = c]
    ELSE c

ToLowerCase(s) == [i \in 1..Len(s) |-> LowerChar(s[i])]

(***************************************************************************)
(* Sequences over a set, up to a length.                                   *)
(***************************************************************************)
SeqsUpTo(S, n) == UNION {[1..k -> S] : k \in 0..n}

Range(s) == {s[i] : i \in 1..Len(s)}

(***************************************************************************)
(* The external collaborators.  The behaviour of an external call is       *)
(* chosen by the environment when the call is issued: [end, code, stdout,  *)
(* stderr].  The settlement the awaiting handler receives is [ok, stdout,  *)
(* stderr, code, err].                                                     *)
(***************************************************************************)
Behaviour(end, code, stdout, stderr) ==
    [end |-> end, code |-> code, stdout |-> stdout, stderr |-> stderr]

NoBehaviour == Behaviour("none", 0, "", "")

Resolved(stdout, stderr, code) ==
    [ok |-> TRUE, stdout |-> stdout, stderr |-> stderr, code |-> code, err |-> ""]

Rejected(err) == [ok |-> FALSE, stdout |-> "", stderr |-> "", code |-> 0, err |-> err]

NoSettlement == Rejected("")

\* A child process: it exits with status 0 or 1 after printing to stdout and
\* stderr, it cannot be spawned, or it never terminates.  The stdout tags
\* "out" and "odd" stand for two different non-empty outputs.
ProcessBehaviours ==
    {Behaviour("exit", 0, o, e) : o \in {"", "out", "odd"}, e \in {"", "err"}}
    \cup {Behaviour("exit", 1, o, "err") : o \in {"", "out"}}
    \cup {Behaviour("spawn-error", 0, "", ""), Behaviour("never", 0, "", "")}

\* Faulty variant, for sensitivity runs: the promise resolves with both streams whatever the exit status.
execAsyncIgnoringStatus(b) ==
    IF b.end = "exit" THEN Resolved(b.stdout, b.stderr, b.code) ELSE Rejected("spawn failed")

\* const execAsync = promisify(exec): resolves {stdout, stderr} when the child
\* exits with status 0, rejects with the exec error on a non-zero status and
\* when the child cannot be spawned; no timeout option is ever passed.
execAsync(b) ==
    IF b.end = "exit" /\ b.code = 0 THEN Resolved(b.stdout, b.stderr, b.code)
    ELSE IF b.end = "exit" THEN Rejected("Command failed")
    ELSE Rejected("spawn failed")

\* fs.readFile(path, "utf-8"): the content ("json": a package.json with
\* scripts, "text": anything JSON.parse rejects), or ENOENT.
FileBehaviours ==
    {Behaviour("read", 0, "json", ""), Behaviour("read", 0, "text", ""),
     Behaviour("enoent", 0, "", "")}

readFile(b) == IF b.end = "read" THEN Resolved(b.stdout, "", 0) ELSE Rejected("ENOENT")

\* pool.query(...): rows, or a driver error.
QueryBehaviours == {Behaviour("rows", 0, "rows", ""), Behaviour("db-error", 0, "", "")}

query(b) == IF b.end = "rows" THEN Resolved(b.stdout, "", 0) ELSE Rejected("query failed")

\* mysql.createPool(DB_CONFIGS.mysql)
PoolBehaviours == {Behaviour("pool", 0, "", "")}

createPool(b) == Resolved("", "", 0)

\* fetch under makeRequest's AbortController: a response with a status and a
\* JSON, malformed-JSON or text body, a transport error, or no response before
\* the timer aborts the call.
FetchBehaviours ==
    {Behaviour("response", st, body, "") : st \in {200, 404}, body \in {"json", "text"}}
    \cup {Behaviour("response", 200, "badjson", ""),
          Behaviour("network-error", 0, "", ""), Behaviour("stalled", 0, "", "")}

\* makeRequest (database-server.js lines 507-550) as one awaited call.
makeRequest(b) ==
    IF b.end = "response" /\ b.stdout # "badjson" THEN Resolved(b.stdout, "", b.code)
    ELSE IF b.end = "response" THEN Rejected("Unexpected token")
    ELSE IF b.end = "network-error" THEN Rejected("fetch failed")
    ELSE Rejected("This operation was aborted")

Behaviours(kind) ==
    CASE kind = "exec" -> ProcessBehaviours
      [] kind = "readFile" -> FileBehaviours
      [] kind = "query" -> QueryBehaviours
      [] kind = "createPool" -> PoolBehaviours
      [] kind = "fetch" -> FetchBehaviours
      [] OTHER -> {NoBehaviour}

(***************************************************************************)
(* What a handler does between two awaits: it issues an external call and  *)
(* awaits it, returns a result object, or throws.                          *)
(***************************************************************************)
Locals == [stage |-> "", first |-> "", n |-> 0, passed |-> 0, failed |-> 0]

Step(t, kind, loc, text, isError, pool) ==
    [t |-> t, kind |-> kind, loc |-> loc, text |-> text, isError |-> isError, pool |-> pool]

Await(kind, loc) == Step("await", kind, loc, <<>>, FALSE, "")

Return(text) == Step("return", "", Locals, text, FALSE, "")

ReturnError(text) == Step("return", "", Locals, text, TRUE, "")

Throw(msg) == Step("throw", "", Locals, msg, FALSE, "")

FallThrough == Step("fallthrough", "", Locals, <<>>, FALSE, "")

\* The argument bag of a request: undefined, or an object.
Undefined == [defined |-> FALSE, bag |-> <<>>]

Bag(b) == [defined |-> TRUE, bag |-> b]

HasArg(a, key) == key \in DOMAIN a.bag

\* Reading a property of an undefined argument bag.
TypeError == Throw(<<"Cannot read properties of undefined">>)

\* `x || fallback` on a text
OrElse(x, fallback) == IF x = "" THEN fallback ELSE x

(***************************************************************************)
(* generate_commit_message (git-server.js): the staged change list and     *)
(* the conventional-commit classifier.                                     *)
(***************************************************************************)
\* Status tokens of `git diff --staged --name-status`.
StatusA == <<"A">>
StatusM == <<"M">>
StatusD == <<"D">>
StatusR == <<"R","1","0","0">>

Statuses == {StatusA, StatusM, StatusD, StatusR}

PathSrcA == <<"a",".","t","s">>
PathSrcB == <<"b",".","t","s">>
PathReadme == <<"R","E","A","D","M","E",".","m","d">>
PathTest == <<"a",".","t","e","s","t",".","j","s">>
PathPackage == <<"p","a","c","k","a","g","e",".","j","s","o","n">>
PathSubPackage == <<"s","u","b","/","p","a","c","k","a","g","e",".","j","s","o","n">>
PathLock == <<"p","a","c","k","a","g","e","-","l","o","c","k",".","j","s","o","n">>
PathRenamedTo == <<"z",".","t","s">>
PathReadMe == <<"R","e","a","d","M","e">>
PathSpec == <<"a",".","s","p","e","c",".","t","s">>

Paths ==
    {PathSrcA, PathSrcB, PathReadme, PathTest, PathPackage, PathSubPackage, PathLock,
     PathReadMe, PathSpec}

\* One line of the name-status output, already cut at its tab characters:
\* "<status>\t<path>", and "<status>\t<old path>\t<new path>" for a rename.
NameStatusLine(st, p) == IF st = StatusR THEN <<st, p, PathRenamedTo>> ELSE <<st, p>>

\* The outputs git can produce for at most MaxFiles staged paths: one line per
\* path, each path once.
PathLists == {ps \in SeqsUpTo(Paths, MaxFiles) : \A i, j \in 1..Len(ps) : i # j => ps[i] # ps[j]}

StatusLists(n) == [1..n -> Statuses]

Diff(ps, st) == [i \in 1..Len(ps) |-> NameStatusLine(st[i], ps[i])]

\* const [status, file] = line.split('\t'); return { status, file };
ParseNameStatus(diff) == [i \in 1..Len(diff) |-> [status |-> diff[i][1], file |-> diff[i][2]]]

added(files) == SelectSeq(files, LAMBDA f : StartsWith(f.status, <<"A">>))

modified(files) == SelectSeq(files, LAMBDA f : StartsWith(f.status, <<"M">>))

deleted(files) == SelectSeq(files, LAMBDA f : StartsWith(f.status, <<"D">>))

renamed(files) == SelectSeq(files, LAMBDA f : StartsWith(f.status, <<"R">>))

\* A summary template literal: its fixed text, and the count or the path put in it.
Summary(text, n, file) == [text |-> text, n |-> n, file |-> file]

\* The if / else-if chain of lines 338-352, with the defaults of lines 329-331.
RuleChain(files) ==
    IF Len(added(files)) > 0 /\ Len(modified(files)) = 0 /\ Len(deleted(files)) = 0
    THEN [type |-> "feat",
          summary |-> IF Len(added(files)) > 1
                      THEN Summary("add N new files", Len(added(files)), <<>>)
                      ELSE Summary("add 'file'", 0, added(files)[1].file)]
    ELSE IF \A i \in 1..Len(files) :
                \/ EndsWith(files[i].file, <<".","m","d">>)
                \/ Includes(ToLowerCase(files[i].file), <<"r","e","a","d","m","e">>)
    THEN [type |-> "docs", summary |-> Summary("update documentation", 0, <<>>)]
    ELSE IF \E i \in 1..Len(files) :
                \/ Includes(files[i].file, <<"t","e","s","t">>)
                \/ Includes(files[i].file, <<"s","p","e","c">>)
    THEN [type |-> "test", summary |-> Summary("update tests", 0, <<>>)]
    ELSE IF Len(modified(files)) > 0
    THEN [type |-> "fix",
          summary |-> IF Len(modified(files)) > 1
                      THEN Summary("update N files", Len(modified(files)), <<>>)
                      ELSE Summary("update 'file'", 0, modified(files)[1].file)]
    ELSE [type |-> "chore", summary |-> Summary("update project structure", 0, <<>>)]

\* Faulty variant, for sensitivity runs: the manifest test compares file names by suffix.
IsManifestBySuffix(file) == EndsWith(file, PathPackage) \/ EndsWith(file, PathLock)

IsManifest(file) == file = PathPackage \/ file = PathLock

\* Lines 354-357: the dependency-manifest override.
ManifestOverride(files, r) ==
    IF \E i \in 1..Len(files) : IsManifest(files[i].file)
    THEN [type |-> "chore", summary |-> Summary("update dependencies or project config", 0, <<>>)]
    ELSE r

\* if (!diff) return "No staged changes to create a commit message from."
NoMessage == [staged |-> FALSE, type |-> "", summary |-> Summary("", 0, <<>>), body |-> <<>>]

\* The handler body after `git diff --staged --name-status` resolved with `diff`.
generate_commit_message(diff) ==
    IF diff = <<>>
    THEN NoMessage
    ELSE LET files == ParseNameStatus(diff)
             r == ManifestOverride(files, RuleChain(files))
         IN  [staged |-> TRUE, type |-> r.type, summary |-> r.summary, body |-> files]

CommitIdle == [phase |-> "idle", diff |-> <<>>, out |-> NoMessage]

\* The classifier runs on the resolved diff and the message is returned.
ClassifyStaged ==
    /\ commit.phase = "staged"
    /\ commit' = [commit EXCEPT !.phase = "done", !.out = generate_commit_message(commit.diff)]
    /\ UNCHANGED <<inv, pgPool, mysqlPool, blame, validation, harness, perf, endpoint, listed, db>>

(***************************************************************************)
(* git_blame: the `--line-porcelain` stream and its parse loop.            *)
(***************************************************************************)
HashLen == 40        \* /^[0-9a-f]{40}/
ShortHashLen == 8    \* parts[0].substring(0, 8)
AuthorTagLen == 7    \* line.substring(7)
TimeTagLen == 12     \* line.substring(12)
LinePad == 4         \* l.line.padEnd(4)
AuthorPad == 13      \* l.author.padEnd(13).substring(0,13)

HexChars == <<"0","1","2","3","4","5","6","7","8","9","a","b","c","d","e","f">>

DigitChars == <<"0","1","2","3","4","5","6","7","8","9">>

IsHex(c) == c \in Range(HexChars)

IsDigit(c) == c \in Range(DigitChars)

RECURSIVE Dec(_)
\* The decimal numeral of a natural number.
Dec(n) == IF n < 10 THEN <<DigitChars[n + 1]>> ELSE Dec(n \div 10) \o <<DigitChars[(n % 10) + 1]>>

DigitValue(c) == (CHOOSE i \in 1..10 : DigitChars[i] = c) - 1

RECURSIVE ParseDigits(_, _, _)
ParseDigits(s, i, acc) ==
    IF i <= Len(s) /\ IsDigit(s[i]) THEN ParseDigits(s, i + 1, acc * 10 + DigitValue(s[i])) ELSE acc

\* parseInt: the leading decimal digits, NaN when there is none.
ParseInt(s) ==
    IF Len(s) > 0 /\ IsDigit(s[1])
    THEN [nan |-> FALSE, v |-> ParseDigits(s, 1, 0)]
    ELSE [nan |-> TRUE, v |-> 0]

\* new Date(timestamp * 1000).toLocaleDateString(): the calendar day of the
\* instant (days since the epoch stand for the formatted day), "Invalid Date"
\* for NaN.
ToLocaleDateString(ts) ==
    IF ts.nan THEN [valid |-> FALSE, day |-> 0]
    ELSE [valid |-> TRUE, day |-> (ts.v * 1000) \div (24 * 60 * 60 * 1000)]

RECURSIVE Split(_, _)
\* String.prototype.split with a one-character separator.
Split(s, sep) ==
    IF \E i \in 1..Len(s) : s[i] = sep
    THEN LET i == CHOOSE k \in 1..Len(s) : s[k] = sep /\ \A j \in 1..(k - 1) : s[j] # sep
         IN  <<SubSeq(s, 1, i - 1)>> \o Split(SubSeq(s, i + 1, Len(s)), sep)
    ELSE <<s>>

PadEnd(s, n) == IF Len(s) >= n THEN s ELSE s \o [i \in 1..(n - Len(s)) |-> " "]

\* obj[key] = value on a JavaScript object.
Put(obj, key, value) == [k \in DOMAIN obj \cup {key} |-> IF k = key THEN value ELSE obj[k]]

Has(obj, key) == key \in DOMAIN obj

EmptyObject == <<>>

AuthorTag == <<"a","u","t","h","o","r"," ">>
TimeTag == <<"a","u","t","h","o","r","-","t","i","m","e"," ">>
Tab == "\t"

\* line.match(/^[0-9a-f]{40}/)
MatchesCommit(line) == Len(line) >= HashLen /\ \A i \in 1..HashLen : IsHex(line[i])

\* Lines 384-388: a fresh attribution object from a commit-info line; parts[2]
\* is undefined when the line has fewer than three tokens.
NewCommitInfo(line) ==
    LET parts == Split(line, " ")
        h == [hash |-> SubSeq(parts[1], 1, ShortHashLen)]
    IN  IF Len(parts) >= 3 THEN Put(h, "line", parts[3]) ELSE h

\* Faulty variant, for sensitivity runs: a commit-info line updates the running attribution object in
\* place instead of replacing it.
BlameLoopStepInPlace(st, line) ==
    IF MatchesCommit(line)
    THEN [st EXCEPT !.cur = [k \in DOMAIN st.cur \cup DOMAIN NewCommitInfo(line) |->
                                IF k \in DOMAIN NewCommitInfo(line)
                                THEN NewCommitInfo(line)[k] ELSE st.cur[k]]]
    ELSE IF StartsWith(line, AuthorTag)
    THEN [st EXCEPT !.cur = Put(st.cur, "author", SubSeq(line, AuthorTagLen + 1, Len(line)))]
    ELSE IF StartsWith(line, TimeTag)
    THEN [st EXCEPT !.cur = Put(st.cur, "date",
              ToLocaleDateString(ParseInt(SubSeq(line, TimeTagLen + 1, Len(line)))))]
    ELSE IF StartsWith(line, <<Tab>>)
    THEN [st EXCEPT !.out = Append(st.out, Put(st.cur, "content", SubSeq(line, 2, Len(line))))]
    ELSE st

\* One iteration of the for loop of lines 382-400 on the pair
\* (currentCommitInfo, blameLines).
BlameLoopStep(st, line) ==
    IF MatchesCommit(line)
    THEN [st EXCEPT !.cur = NewCommitInfo(line)]
    ELSE IF StartsWith(line, AuthorTag)
    THEN [st EXCEPT !.cur = Put(st.cur, "author", SubSeq(line, AuthorTagLen + 1, Len(line)))]
    ELSE IF StartsWith(line, TimeTag)
    THEN [st EXCEPT !.cur = Put(st.cur, "date",
              ToLocaleDateString(ParseInt(SubSeq(line, TimeTagLen + 1, Len(line)))))]
    ELSE IF StartsWith(line, <<Tab>>)
    THEN [st EXCEPT !.out = Append(st.out, Put(st.cur, "content", SubSeq(line, 2, Len(line))))]
    ELSE st

RECURSIVE BlameLoop(_, _, _)
BlameLoop(lines, i, st) ==
    IF i > Len(lines) THEN st ELSE BlameLoop(lines, i + 1, BlameLoopStep(st, lines[i]))

\* The loop of the 7-tool variant (unnamed/part_002): currentCommit starts as
\* null, so an author or author-time line before any commit line throws, and
\* the commit object holds the hash only.
BlameLoopStepOld(st, line) ==
    IF st.threw THEN st
    ELSE IF MatchesCommit(line)
    THEN [st EXCEPT !.null = FALSE,
                    !.cur = [hash |-> SubSeq(Split(line, " ")[1], 1, ShortHashLen)]]
    ELSE IF StartsWith(line, AuthorTag)
    THEN IF st.null THEN [st EXCEPT !.threw = TRUE]
         ELSE [st EXCEPT !.cur = Put(st.cur, "author", SubSeq(line, AuthorTagLen + 1, Len(line)))]
    ELSE IF StartsWith(line, TimeTag)
    THEN IF st.null THEN [st EXCEPT !.threw = TRUE]
         ELSE [st EXCEPT !.cur = Put(st.cur, "date",
                   ToLocaleDateString(ParseInt(SubSeq(line, TimeTagLen + 1, Len(line)))))]
    ELSE IF StartsWith(line, <<Tab>>)
    THEN [st EXCEPT !.out = Append(st.out, Put(st.cur, "content", SubSeq(line, 2, Len(line))))]
    ELSE st

RECURSIVE BlameLoopOld(_, _, _)
BlameLoopOld(lines, i, st) ==
    IF i > Len(lines) THEN st ELSE BlameLoopOld(lines, i + 1, BlameLoopStepOld(st, lines[i]))

\* Lines 404-406: a table row reads l.line.padEnd, l.author.padEnd and
\* l.date.padEnd, each of which throws a TypeError on undefined.
RowThrows(l) == ~Has(l, "line") \/ ~Has(l, "author") \/ ~Has(l, "date")

TableRow(l) ==
    [line |-> PadEnd(l["line"], LinePad),
     hash |-> IF Has(l, "hash") THEN l["hash"] ELSE <<>>,
     author |-> SubSeq(PadEnd(l["author"], AuthorPad), 1, AuthorPad),
     date |-> l["date"],
     content |-> l["content"]]

\* The git_blame handler body after its exec resolved with the lines of stdout
\* (git-server.js lines 378-415): the records, and the table or the TypeError.
git_blame(lines) ==
    LET st == BlameLoop(lines, 1, [cur |-> EmptyObject, out |-> <<>>])
    IN  IF \E j \in 1..Len(st.out) : RowThrows(st.out[j])
        THEN [threw |-> TRUE, blameLines |-> st.out, rows |-> <<>>]
        ELSE [threw |-> FALSE, blameLines |-> st.out,
              rows |-> [j \in 1..Len(st.out) |-> TableRow(st.out[j])]]

\* The 7-tool variant (unnamed/part_002 lines 292-321): the records are
\* returned as JSON, with no table.
git_blame_old(lines) ==
    LET st == BlameLoopOld(lines, 1,
                  [null |-> TRUE, threw |-> FALSE, cur |-> EmptyObject, out |-> <<>>])
    IN  [threw |-> st.threw, blameLines |-> IF st.threw THEN <<>> ELSE st.out, rows |-> <<>>]

(***************************************************************************)
(* The streams `git blame --line-porcelain` is modelled to print: any      *)
(* sequence of at most MaxLines lines, each a commit-info line of one of   *)
(* two commits, an author line (of one of two authors, by its position in  *)
(* the stream), an author-time line, a tab-prefixed content line or an     *)
(* author-mail line (a line the parser ignores).                           *)
(* A commit-info line is "<hash> <orig> <final> 1" with <final>            *)
(* the number of the source line that comes next; content line number n    *)
(* carries the text "L<n>".                                                *)
(***************************************************************************)
Hash1 == [i \in 1..HashLen |-> HexChars[(i % 16) + 1]]

Hash2 == [i \in 1..HashLen |-> HexChars[((3 * i) % 16) + 1]]

LineKinds == {"H1", "H2", "A", "T1", "C", "O"}

ContentBefore(kinds, i) == Cardinality({j \in 1..(i - 1) : kinds[j] = "C"})

StreamLine(kinds, i) ==
    LET n == ContentBefore(kinds, i) + 1
        header(h) == h \o <<" ">> \o Dec(n + 1) \o <<" ">> \o Dec(n) \o <<" ", "1">>
    IN  CASE kinds[i] = "H1" -> header(Hash1)
          [] kinds[i] = "H2" -> header(Hash2)
          [] kinds[i] = "A"  -> AuthorTag \o (IF i % 2 = 0 THEN <<"A","n","n">>
                                               ELSE <<"B","o","b"," ","B","u","i","l","d","e","r","-","S","m","i","t","h">>)
          [] kinds[i] = "T1" -> TimeTag \o <<"2","0","0","0","0","0">>
          [] kinds[i] = "C"  -> <<Tab, "L">> \o Dec(n)
          [] OTHER           -> <<"a","u","t","h","o","r","-","m","a","i","l"," ","<","a","@","b",">">>

\* stdout.split("\n"): the lines, and the empty string after the last newline.
StdoutLines(kinds) == [i \in 1..Len(kinds) |-> StreamLine(kinds, i)] \o << <<>> >>

Versions == {"git-server.js", "part_002"}

NoBlame == [threw |-> FALSE, blameLines |-> <<>>, rows |-> <<>>]

BlameIdle == [version |-> "git-server.js", phase |-> "idle", lines |-> <<>>, out |-> NoBlame]

\* git-server.js: the handler parses the resolved stdout and builds the table.
ParseBlame ==
    /\ blame.phase = "stdout"
    /\ blame.version = "git-server.js"
    /\ blame' = [blame EXCEPT !.phase = "done", !.out = git_blame(blame.lines)]
    /\ UNCHANGED <<inv, pgPool, mysqlPool, commit, validation, harness, perf, endpoint, listed, db>>

\* unnamed/part_002: the handler parses the resolved stdout.
ParseBlameOld ==
    /\ blame.phase = "stdout"
    /\ blame.version = "part_002"
    /\ blame' = [blame EXCEPT !.phase = "done", !.out = git_blame_old(blame.lines)]
    /\ UNCHANGED <<inv, pgPool, mysqlPool, commit, validation, harness, perf, endpoint, listed, db>>

(***************************************************************************)
(* The tool registries (the ListTools handlers).                           *)
(***************************************************************************)
GitTools ==
    <<"git_status", "git_log", "git_diff", "git_branches", "generate_commit_message",
      "git_blame", "git_search_commits", "git_stage", "git_commit", "git_push">>

GitToolsOld ==
    <<"git_status", "git_log", "git_diff", "git_branches", "generate_commit_message",
      "git_blame", "git_search_commits">>

DevTools ==
    <<"docker_ps", "docker_logs", "docker_exec", "docker_compose", "docker_stats",
      "run_command", "monitor_logs", "check_ports", "npm_scripts">>

DatabaseTools == <<"execute_query", "get_schema", "get_table_stats", "generate_migration">>

ApiTools ==
    <<"http_request", "test_endpoint", "generate_test_cases", "performance_test",
      "validate_response">>

Servers == {"git-server.js", "part_002", "devtools-server.js", "database-server.js",
            "api-testing-server.js"}

\* Faulty variant, for sensitivity runs: git-server.js advertises the tools of its older version.
RegistryOfOlderGit(s) ==
    CASE s = "git-server.js" -> GitToolsOld
      [] s = "part_002" -> GitToolsOld
      [] s = "devtools-server.js" -> DevTools
      [] s = "database-server.js" -> DatabaseTools
      [] s = "api-testing-server.js" -> ApiTools

Registry(s) ==
    CASE s = "git-server.js" -> GitTools
      [] s = "part_002" -> GitToolsOld
      [] s = "devtools-server.js" -> DevTools
      [] s = "database-server.js" -> DatabaseTools
      [] s = "api-testing-server.js" -> ApiTools

\* Faulty variant, for sensitivity runs: the default case reports an unknown tool without naming it.
UnknownToolUnnamed(name) == Throw(<<"Unknown tool">>)

\* default: throw new Error(`Unknown tool: ${name}`)
UnknownTool(name) == Throw(<<"Unknown tool: ", name>>)

(***************************************************************************)
(* git-server.js: the cases of the call-tool switch.  k is the number of   *)
(* awaits the handler has passed, res the settlement of the last one.      *)
(***************************************************************************)
\* git status --porcelain -b, then git status
case_git_status(a, k, loc, res) ==
    IF ~a.defined THEN TypeError
    ELSE IF k = 0 THEN Await("exec", loc)
    ELSE IF ~res.ok THEN Throw(<<res.err>>)
    ELSE IF k = 1 THEN Await("exec", [loc EXCEPT !.first = res.stdout])
    ELSE Return(<<"Short status:", loc.first, "Detailed status:", res.stdout>>)

\* git log
case_git_log(a, k, loc, res) ==
    IF ~a.defined THEN TypeError
    ELSE IF k = 0 THEN Await("exec", loc)
    ELSE IF ~res.ok THEN Throw(<<res.err>>)
    ELSE Return(<<"Recent commits:", res.stdout>>)

\* git diff
case_git_diff(a, k, loc, res) ==
    IF ~a.defined THEN TypeError
    ELSE IF k = 0 THEN Await("exec", loc)
    ELSE IF ~res.ok THEN Throw(<<res.err>>)
    ELSE Return(<<OrElse(res.stdout, "No changes found")>>)

\* git branch -v
case_git_branches(a, k, loc, res) ==
    IF ~a.defined THEN TypeError
    ELSE IF k = 0 THEN Await("exec", loc)
    ELSE IF ~res.ok THEN Throw(<<res.err>>)
    ELSE Return(<<"Branches:", res.stdout>>)

\* The name-status output a stdout tag stands for.
NameStatusStdout(tag) ==
    CASE tag = "" -> <<>>
      [] tag = "out" -> <<NameStatusLine(StatusM, PathSrcA)>>
      [] OTHER -> <<NameStatusLine(StatusA, PathSrcA), NameStatusLine(StatusR, PathSrcB)>>

\* git diff --staged --name-status, then the classifier
case_generate_commit_message(a, k, loc, res) ==
    IF ~a.defined THEN TypeError
    ELSE IF k = 0 THEN Await("exec", loc)
    ELSE IF ~res.ok THEN Throw(<<res.err>>)
    ELSE LET m == generate_commit_message(NameStatusStdout(res.stdout))
         IN  IF ~m.staged
             THEN Return(<<"No staged changes to create a commit message from.">>)
             ELSE Return(<<"Suggested commit message:", m.type, m.summary.text>>)

\* The blame output a stdout tag stands for.
BlameStdout(tag) ==
    CASE tag = "" -> StdoutLines(<<>>)
      [] tag = "out" -> StdoutLines(<<"H1", "A", "T1", "C", "H2", "O", "A", "T1", "C">>)
      [] OTHER -> StdoutLines(<<"C", "H1", "A", "T1", "C">>)

\* git blame --line-porcelain, then the parse loop and the table
case_git_blame(a, k, loc, res) ==
    IF ~a.defined THEN TypeError
    ELSE IF k = 0 THEN Await("exec", loc)
    ELSE IF ~res.ok THEN Throw(<<res.err>>)
    ELSE IF git_blame(BlameStdout(res.stdout)).threw
    THEN Throw(<<"Cannot read properties of undefined (reading 'padEnd')">>)
    ELSE Return(<<"Blame for file:", "table">>)

\* git log --all with the search option
case_git_search_commits(a, k, loc, res) ==
    IF ~a.defined THEN TypeError
    ELSE IF k = 0 THEN Await("exec", loc)
    ELSE IF ~res.ok THEN Throw(<<res.err>>)
    ELSE Return(<<OrElse(res.stdout, "No commits found matching query")>>)

\* Faulty variant, for sensitivity runs: the outcome of git add is not looked at.
case_git_stage_unchecked(a, k, loc, res) ==
    IF ~a.defined THEN TypeError
    ELSE IF k = 0 THEN Await("exec", loc)
    ELSE IF k = 1 THEN Await("exec", [loc EXCEPT !.first = res.stdout])
    ELSE IF ~res.ok THEN Throw(<<res.err>>)
    ELSE Return(<<"Staging successful. Current status:", res.stdout>>)

\* git add, then git status --short
case_git_stage(a, k, loc, res) ==
    IF ~a.defined THEN TypeError
    ELSE IF k = 0 THEN Await("exec", loc)
    ELSE IF ~res.ok THEN Throw(<<res.err>>)
    ELSE IF k = 1 THEN Await("exec", [loc EXCEPT !.first = res.stdout])
    ELSE Return(<<"Staging successful. Current status:", res.stdout>>)

\* git commit -m, then git log -1
case_git_commit(a, k, loc, res) ==
    IF ~a.defined THEN TypeError
    ELSE IF k = 0 THEN Await("exec", loc)
    ELSE IF ~res.ok THEN Throw(<<res.err>>)
    ELSE IF k = 1 THEN Await("exec", [loc EXCEPT !.first = res.stdout])
    ELSE Return(<<"Commit successful!", loc.first, "Latest commit:", res.stdout>>)

\* git push
case_git_push(a, k, loc, res) ==
    IF ~a.defined THEN TypeError
    ELSE IF k = 0 THEN Await("exec", loc)
    ELSE IF ~res.ok THEN Throw(<<res.err>>)
    ELSE Return(<<"Push command executed.", "STDOUT:", res.stdout, "STDERR:", res.stderr>>)

GitSwitch(name, a, k, loc, res) ==
    CASE name = "git_status" -> case_git_status(a, k, loc, res)
      [] name = "git_log" -> case_git_log(a, k, loc, res)
      [] name = "git_diff" -> case_git_diff(a, k, loc, res)
      [] name = "git_branches" -> case_git_branches(a, k, loc, res)
      [] name = "generate_commit_message" -> case_generate_commit_message(a, k, loc, res)
      [] name = "git_blame" -> case_git_blame(a, k, loc, res)
      [] name = "git_search_commits" -> case_git_search_commits(a, k, loc, res)
      [] name = "git_stage" -> case_git_stage(a, k, loc, res)
      [] name = "git_commit" -> case_git_commit(a, k, loc, res)
      [] name = "git_push" -> case_git_push(a, k, loc, res)
      [] OTHER -> UnknownTool(name)

(***************************************************************************)
(* unnamed/part_002: the 7-tool variant of the git server.  Its status,    *)
(* log, diff, branches and search cases read as those of git-server.js.    *)
(***************************************************************************)
\* git diff --staged, then git status --short, then the file counts
case_generate_commit_message_old(a, k, loc, res) ==
    IF ~a.defined THEN TypeError
    ELSE IF k = 0 THEN Await("exec", loc)
    ELSE IF ~res.ok THEN Throw(<<res.err>>)
    ELSE IF k = 1 THEN Await("exec", [loc EXCEPT !.first = res.stdout])
    ELSE IF loc.first = "" /\ res.stdout = "" THEN Return(<<"No staged changes to commit">>)
    ELSE Return(<<"Suggested commit message:", "chore", res.stdout>>)

\* git blame --line-porcelain, then the parse loop and JSON.stringify
case_git_blame_old(a, k, loc, res) ==
    IF ~a.defined THEN TypeError
    ELSE IF k = 0 THEN Await("exec", loc)
    ELSE IF ~res.ok THEN Throw(<<res.err>>)
    ELSE IF git_blame_old(BlameStdout(res.stdout)).threw
    THEN Throw(<<"Cannot set properties of null">>)
    ELSE Return(<<"blameInfo">>)

GitSwitchOld(name, a, k, loc, res) ==
    CASE name = "git_status" -> case_git_status(a, k, loc, res)
      [] name = "git_log" -> case_git_log(a, k, loc, res)
      [] name = "git_diff" -> case_git_diff(a, k, loc, res)
      [] name = "git_branches" -> case_git_branches(a, k, loc, res)
      [] name = "generate_commit_message" -> case_generate_commit_message_old(a, k, loc, res)
      [] name = "git_blame" -> case_git_blame_old(a, k, loc, res)
      [] name = "git_search_commits" -> case_git_search_commits(a, k, loc, res)
      [] OTHER -> UnknownTool(name)

(***************************************************************************)
(* devtools-server.js (unnamed/part_001): the cases of the switch.         *)
(***************************************************************************)
\* docker ps
case_docker_ps(a, k, loc, res) ==
    IF ~a.defined THEN TypeError
    ELSE IF k = 0 THEN Await("exec", loc)
    ELSE IF ~res.ok THEN Throw(<<res.err>>)
    ELSE Return(<<res.stdout>>)

\* docker logs --tail, with -f when args.follow
case_docker_logs(a, k, loc, res) ==
    IF ~a.defined THEN TypeError
    ELSE IF k = 0 THEN Await("exec", loc)
    ELSE IF ~res.ok THEN Throw(<<res.err>>)
    ELSE Return(<<OrElse(res.stdout, "No logs available")>>)

\* docker exec
case_docker_exec(a, k, loc, res) ==
    IF ~a.defined THEN TypeError
    ELSE IF k = 0 THEN Await("exec", loc)
    ELSE IF ~res.ok THEN Throw(<<res.err>>)
    ELSE Return(<<"STDOUT:", res.stdout, "STDERR:", res.stderr>>)

\* docker-compose
case_docker_compose(a, k, loc, res) ==
    IF ~a.defined THEN TypeError
    ELSE IF k = 0 THEN Await("exec", loc)
    ELSE IF ~res.ok THEN Throw(<<res.err>>)
    ELSE Return(<<res.stdout, res.stderr>>)

\* docker stats --no-stream
case_docker_stats(a, k, loc, res) ==
    IF ~a.defined THEN TypeError
    ELSE IF k = 0 THEN Await("exec", loc)
    ELSE IF ~res.ok THEN Throw(<<res.err>>)
    ELSE Return(<<res.stdout>>)

\* execAsync(args.command, options)
case_run_command(a, k, loc, res) ==
    IF ~a.defined THEN TypeError
    ELSE IF k = 0 THEN Await("exec", loc)
    ELSE IF ~res.ok THEN Throw(<<res.err>>)
    ELSE Return(<<"STDOUT:", res.stdout, "STDERR:", res.stderr>>)

\* fs.readFile in its own try/catch; args.lines is read ahead of that try
case_monitor_logs(a, k, loc, res) ==
    IF ~a.defined THEN TypeError
    ELSE IF k = 0 THEN Await("readFile", loc)
    ELSE IF ~res.ok THEN ReturnError(<<"Error reading log file: ", res.err>>)
    ELSE Return(<<"Last lines from logPath:", res.stdout>>)

\* Faulty variant, for sensitivity runs: the case has no try/catch of its own.
case_check_ports_uncaught(a, k, loc, res) ==
    IF ~a.defined THEN TypeError
    ELSE IF k = 0 THEN Await("exec", loc)
    ELSE IF ~res.ok THEN Throw(<<res.err>>)
    ELSE Return(<<OrElse(res.stdout, "No process found using port")>>)

\* lsof / netstat in its own try/catch, whose catch reads args.port again
case_check_ports(a, k, loc, res) ==
    IF ~a.defined THEN TypeError
    ELSE IF k = 0 THEN Await("exec", loc)
    ELSE IF ~res.ok THEN Return(<<"Port appears to be free">>)
    ELSE Return(<<OrElse(res.stdout, "No process found using port")>>)

\* readFile and JSON.parse, then "list" or "run" inside one try/catch; any
\* other action leaves the if / else-if without a return, and the case has
\* no break.
case_npm_scripts(a, k, loc, res) ==
    IF ~a.defined THEN TypeError
    ELSE IF k = 0 THEN Await("readFile", loc)
    ELSE IF ~res.ok THEN ReturnError(<<"Error: ", res.err>>)
    ELSE IF k = 1
    THEN IF res.stdout # "json" THEN ReturnError(<<"Error: ", "Unexpected token">>)
         ELSE IF HasArg(a, "action") /\ a.bag["action"] = "list"
         THEN Return(<<"Available scripts:">>)
         ELSE IF HasArg(a, "action") /\ a.bag["action"] = "run"
         THEN IF ~HasArg(a, "scriptName")
              THEN ReturnError(<<"Error: ", "scriptName is required for 'run' action">>)
              ELSE Await("exec", loc)
         ELSE FallThrough
    ELSE Return(<<"Output from script:", res.stdout, res.stderr>>)

DevtoolsSwitch(name, a, k, loc, res) ==
    CASE name = "docker_ps" -> case_docker_ps(a, k, loc, res)
      [] name = "docker_logs" -> case_docker_logs(a, k, loc, res)
      [] name = "docker_exec" -> case_docker_exec(a, k, loc, res)
      [] name = "docker_compose" -> case_docker_compose(a, k, loc, res)
      [] name = "docker_stats" -> case_docker_stats(a, k, loc, res)
      [] name = "run_command" -> case_run_command(a, k, loc, res)
      [] name = "monitor_logs" -> case_monitor_logs(a, k, loc, res)
      [] name = "check_ports" -> case_check_ports(a, k, loc, res)
      [] name = "npm_scripts" ->
            IF case_npm_scripts(a, k, loc, res).t = "fallthrough"
            THEN UnknownTool(name)
            ELSE case_npm_scripts(a, k, loc, res)
      [] OTHER -> UnknownTool(name)

(***************************************************************************)
(* database-server.js: the lazily created pools and the cases.  g holds    *)
(* the two module-level pool variables as the handler reads them (0 is     *)
(* null).                                                                  *)
(***************************************************************************)
\* The shape shared by execute_query, get_schema and get_table_stats:
\* dbType === "postgres" takes getPgPool() and queries; anything else awaits
\* getMysqlPool(), which creates the pool when mysqlPool is null, and queries.
\* Faulty variant, for sensitivity runs: everything but "mysql" goes to PostgreSQL.
UsesPostgresUnlessMysql(a) == ~(HasArg(a, "dbType") /\ a.bag["dbType"] = "mysql")

\* args.dbType === "postgres"
UsesPostgres(a) == HasArg(a, "dbType") /\ a.bag["dbType"] = "postgres"

QueryCase(a, k, loc, res, g, okText) ==
    IF ~a.defined THEN TypeError
    ELSE IF UsesPostgres(a)
    THEN IF loc.stage = ""
         THEN Step("await", "query", [loc EXCEPT !.stage = "pg-query"], <<>>, FALSE, "pg")
         ELSE IF ~res.ok THEN Throw(<<res.err>>) ELSE Return(okText)
    ELSE IF loc.stage = ""
         THEN IF g.mysql = 0
              THEN Await("createPool", [loc EXCEPT !.stage = "mysql-create"])
              ELSE Await("query", [loc EXCEPT !.stage = "mysql-query"])
         ELSE IF loc.stage = "mysql-create"
         THEN Step("await", "query", [loc EXCEPT !.stage = "mysql-query"], <<>>, FALSE, "mysql")
         ELSE IF ~res.ok THEN Throw(<<res.err>>) ELSE Return(okText)

case_execute_query(a, k, loc, res, g) == QueryCase(a, k, loc, res, g, <<"rows, rowCount">>)

case_get_schema(a, k, loc, res, g) == QueryCase(a, k, loc, res, g, <<"schema">>)

case_get_table_stats(a, k, loc, res, g) == QueryCase(a, k, loc, res, g, <<"stats">>)

\* args.description.toLowerCase() throws when description is undefined
case_generate_migration(a, k, loc, res) ==
    IF ~a.defined THEN TypeError
    ELSE IF ~HasArg(a, "description") THEN TypeError
    ELSE Return(<<"Migration file generated:", "template">>)

DatabaseSwitch(name, a, k, loc, res, g) ==
    CASE name = "execute_query" -> case_execute_query(a, k, loc, res, g)
      [] name = "get_schema" -> case_get_schema(a, k, loc, res, g)
      [] name = "get_table_stats" -> case_get_table_stats(a, k, loc, res, g)
      [] name = "generate_migration" -> case_generate_migration(a, k, loc, res)
      [] OTHER -> UnknownTool(name)

(***************************************************************************)
(* api-testing-server.js (second half of database-server.js): the cases.   *)
(***************************************************************************)
PerfDefault == 10    \* const requests = args.requests || 10

case_http_request(a, k, loc, res) ==
    IF ~a.defined THEN TypeError
    ELSE IF k = 0 THEN Await("fetch", loc)
    ELSE IF ~res.ok THEN Throw(<<res.err>>)
    ELSE Return(<<"status, statusText, headers, body, duration">>)

\* One pass of a loop whose body awaits makeRequest inside try/catch:
\* the counters after the settlement of request number loc.n.
Tally(loc, k, res, passed) ==
    IF k = 0 THEN loc
    ELSE [loc EXCEPT !.n = @ + 1,
                     !.passed = @ + (IF passed THEN 1 ELSE 0),
                     !.failed = @ + (IF passed THEN 0 ELSE 1)]

\* for (const test of args.tests): args.tests is the number of scenarios,
\* each expecting status 200; a missing args.tests is not iterable.
case_test_endpoint(a, k, loc, res) ==
    IF ~a.defined THEN TypeError
    ELSE IF ~HasArg(a, "tests") THEN Throw(<<"args.tests is not iterable">>)
    ELSE LET now == Tally(loc, k, res, res.ok /\ res.code = 200)
         IN  IF now.n < a.bag["tests"]
             THEN Await("fetch", now)
             ELSE Step("return", "", now, <<"total, passed, failed, results">>, FALSE, "")

case_generate_test_cases(a, k, loc, res) ==
    IF ~a.defined THEN TypeError
    ELSE IF ~HasArg(a, "endpoint") THEN TypeError
    ELSE Return(<<"testCases">>)

\* for (let i = 0; i < requests; i++): passed counts times, failed counts errors
case_performance_test(a, k, loc, res) ==
    IF ~a.defined THEN TypeError
    ELSE LET requests == IF HasArg(a, "requests") /\ a.bag["requests"] # 0
                         THEN a.bag["requests"] ELSE PerfDefault
             now == Tally(loc, k, res, res.ok)
         IN  IF now.n < requests
             THEN Await("fetch", now)
             ELSE Step("return", "", now, <<"stats">>, FALSE, "")

\* validateObject(args.response, args.schema): schema.type throws on an
\* undefined schema, and obj[key] throws on an undefined response once an
\* object schema with properties is walked.
case_validate_response(a, k, loc, res) ==
    IF ~a.defined THEN TypeError
    ELSE IF ~HasArg(a, "schema") THEN TypeError
    ELSE IF a.bag["schema"] = "object with properties" /\ ~HasArg(a, "response") THEN TypeError
    ELSE Return(<<"valid, errors">>)

ApiSwitch(name, a, k, loc, res) ==
    CASE name = "http_request" -> case_http_request(a, k, loc, res)
      [] name = "test_endpoint" -> case_test_endpoint(a, k, loc, res)
      [] name = "generate_test_cases" -> case_generate_test_cases(a, k, loc, res)
      [] name = "performance_test" -> case_performance_test(a, k, loc, res)
      [] name = "validate_response" -> case_validate_response(a, k, loc, res)
      [] OTHER -> UnknownTool(name)

(***************************************************************************)
(* The call-tool request handler of every server: the switch inside        *)
(* try { ... } catch (error) { return { content: [...], isError: true } }. *)
(***************************************************************************)
Switch(s, name, a, k, loc, res, g) ==
    CASE s = "git-server.js" -> GitSwitch(name, a, k, loc, res)
      [] s = "part_002" -> GitSwitchOld(name, a, k, loc, res)
      [] s = "devtools-server.js" -> DevtoolsSwitch(name, a, k, loc, res)
      [] s = "database-server.js" -> DatabaseSwitch(name, a, k, loc, res, g)
      [] s = "api-testing-server.js" -> ApiSwitch(name, a, k, loc, res)

\* Faulty variant, for sensitivity runs: there is no try/catch around the switch.
CallToolUncaught(s, name, a, k, loc, res, g) == Switch(s, name, a, k, loc, res, g)

CallTool(s, name, a, k, loc, res, g) ==
    IF Switch(s, name, a, k, loc, res, g).t = "throw"
    THEN ReturnError(<<"Error: ">> \o Switch(s, name, a, k, loc, res, g).text)
    ELSE Switch(s, name, a, k, loc, res, g)

(***************************************************************************)
(* The requests the model sends.                                           *)
(***************************************************************************)
MaxTests == 2        \* scenarios of one test_endpoint request

ToolNames ==
    Range(GitTools) \cup Range(DevTools) \cup Range(DatabaseTools) \cup Range(ApiTools)
    \cup {"no_such_tool"}

ArgBags(name) ==
    CASE name = "docker_logs" ->
            {[container |-> "web"], [container |-> "web", follow |-> TRUE]}
      [] name = "npm_scripts" ->
            {[projectPath |-> "/app"],
             [projectPath |-> "/app", action |-> "list"],
             [projectPath |-> "/app", action |-> "run"],
             [projectPath |-> "/app", action |-> "run", scriptName |-> "build"],
             [projectPath |-> "/app", action |-> "install"]}
      [] name \in {"execute_query", "get_schema", "get_table_stats"} ->
            {[query |-> "q"]} \cup {[query |-> "q", dbType |-> t] : t \in {"postgres", "mysql", "sqlite"}}
      [] name = "generate_migration" ->
            {[dbType |-> "postgres"], [dbType |-> "postgres", description |-> "add users"]}
      [] name = "test_endpoint" ->
            {[baseUrl |-> "u"]} \cup {[baseUrl |-> "u", tests |-> n] : n \in 0..MaxTests}
      [] name = "generate_test_cases" ->
            {[method |-> "GET"], [method |-> "GET", endpoint |-> "/users/1"]}
      [] name = "performance_test" ->
            {[url |-> "u"]} \cup {[url |-> "u", requests |-> n] : n \in {0 - 1, 0, 2}}
      [] name = "validate_response" ->
            {[x |-> "none"], [response |-> "object"]}
            \cup {[schema |-> sh] : sh \in {"object with properties", "other"}}
            \cup {[response |-> "object", schema |-> sh] : sh \in {"object with properties", "other"}}
      [] OTHER -> {[repoPath |-> "/repo"]}

ArgumentBags(name) == {Undefined} \cup {Bag(b) : b \in ArgBags(name)}

(***************************************************************************)
(* validate_response (database-server.js 715-755): JSON values, shapes and *)
(* validateObject.  A value is a tag and, for an object, its fields; a     *)
(* field that is absent reads as undefined, as obj[key] does.              *)
(***************************************************************************)
Keys == {"id", "user"}

NestedKeys == {"id"}

\* Values of the fields of a nested object.
LeafTags == {"undefined", "string", "number"}

NoFields == [k \in NestedKeys |-> "undefined"]

JsValue(tag) == [tag |-> tag, fields |-> NoFields]

JsUndefined == JsValue("undefined")

\* What a field of the validated value can hold (undefined: no such field).
FieldValues ==
    {JsValue(t) : t \in {"undefined", "null", "string", "number", "array"}}
        \cup {[tag |-> "object", fields |-> f] : f \in [NestedKeys -> LeafTags]}

NoTopFields == [k \in Keys |-> JsUndefined]

\* args.response: absent, null, a primitive, an array, or an object.
Responses ==
    {[tag |-> t, fields |-> NoTopFields] : t \in {"undefined", "null", "string", "number", "array"}}
        \cup {[tag |-> "object", fields |-> f] : f \in [Keys -> FieldValues]}

\* A property list in declaration order, as Object.entries walks it.
Absent == [defined |-> FALSE, entries |-> <<>>]

Present(entries) == [defined |-> TRUE, entries |-> entries]

\* The shape of one property: its type tag ("undefined": none declared)
\* and, for a nested object shape, its own properties and required list.
PropShape(type, properties, required) ==
    [type |-> type, properties |-> properties, required |-> required]

NestedShape ==
    PropShape("object", Present(<<[key |-> "id", type |-> "number"]>>), Present(<<"id">>))

PropShapes ==
    {PropShape(t, Absent, Absent) : t \in {"undefined", "number", "object", "array"}}
        \cup {NestedShape}

KeyLists == {ks \in SeqsUpTo(Keys, Cardinality(Keys)) : \A i, j \in 1..Len(ks) : i # j => ks[i] # ks[j]}

PropertyLists ==
    {Absent} \cup
    UNION {{Present([i \in 1..Len(ks) |-> [key |-> ks[i], shape |-> sh[i]]]) :
                sh \in [1..Len(ks) -> PropShapes]} : ks \in KeyLists}

RequiredLists == {Absent, Present(<<>>), Present(<<"id">>), Present(<<"user">>), Present(<<"id", "user">>)}

\* args.schema: absent, or an object with an optional type, properties and
\* required list.
UndefinedShape == [defined |-> FALSE, type |-> "undefined", properties |-> Absent, required |-> Absent]

Shapes ==
    {UndefinedShape} \cup
    {[defined |-> TRUE, type |-> t, properties |-> p, required |-> r] :
        t \in {"undefined", "object", "array"}, p \in PropertyLists, r \in RequiredLists}

\* Faulty variant, for sensitivity runs: typeof alone, an array is an "object".
TypeofOnly(value) == IF value.tag \in {"array", "null"} THEN "object" ELSE value.tag

\* Array.isArray(value) ? "array" : typeof value
ActualType(value) ==
    IF value.tag = "array" THEN "array"
    ELSE IF value.tag = "null" THEN "object"
    ELSE value.tag

\* obj[key]: a TypeError on undefined and null, undefined on a primitive or
\* an array, the field on an object.
ReadThrows(obj) == obj.tag \in {"undefined", "null"}

Read(obj, key) == IF obj.tag = "object" THEN obj.fields[key] ELSE JsUndefined

\* Faulty variant, for sensitivity runs: only the first required name counts.
RequiredIncludesFirst(schema, key) ==
    schema.required.defined /\ Len(schema.required.entries) > 0 /\ schema.required.entries[1] = key

\* schema.required && schema.required.includes(key)
RequiredIncludes(schema, key) ==
    schema.required.defined /\ \E i \in 1..Len(schema.required.entries) : schema.required.entries[i] = key

MissingError(path) == [kind |-> "Missing required field", path |-> path, expected |-> "", actual |-> ""]

MismatchError(path, expected, actual) ==
    [kind |-> "Type mismatch", path |-> path, expected |-> expected, actual |-> actual]

\* Faulty variant, for sensitivity runs: the loop descends into the
\* properties of a nested object shape.
NestedErrors(key, value, propSchema) ==
    IF propSchema.properties.defined /\ value.tag = "object"
    THEN LET nested == propSchema.properties.entries[1]
             path == key \o "." \o nested.key
             field == value.fields[nested.key]
         IN  IF field = "undefined"
             THEN IF propSchema.required.defined THEN <<MissingError(path)>> ELSE <<>>
             ELSE IF field # nested.type
             THEN <<MismatchError(path, nested.type, field)>>
             ELSE <<>>
    ELSE <<>>

RECURSIVE ValidateLoopDeep(_, _, _, _)
ValidateLoopDeep(obj, schema, i, errors) ==
    IF i > Len(schema.properties.entries)
    THEN [threw |-> FALSE, errors |-> errors]
    ELSE IF obj.tag \in {"undefined", "null"}
    THEN [threw |-> TRUE, errors |-> <<>>]
    ELSE LET key == schema.properties.entries[i].key
             propSchema == schema.properties.entries[i].shape
             value == IF obj.tag = "object" THEN obj.fields[key] ELSE JsUndefined
             actual == IF value.tag = "array" THEN "array"
                       ELSE IF value.tag = "null" THEN "object" ELSE value.tag
             required == schema.required.defined /\ key \in Range(schema.required.entries)
         IN  IF required /\ value.tag = "undefined"
             THEN ValidateLoopDeep(obj, schema, i + 1, Append(errors, MissingError(key)))
             ELSE IF value.tag # "undefined" /\ actual # propSchema.type
             THEN ValidateLoopDeep(obj, schema, i + 1,
                                   Append(errors, MismatchError(key, propSchema.type, actual)))
             ELSE ValidateLoopDeep(obj, schema, i + 1, errors \o NestedErrors(key, value, propSchema))

\* One pass of the for loop of lines 721-738 over the declared properties.
RECURSIVE ValidateLoop(_, _, _, _)
ValidateLoop(obj, schema, i, errors) ==
    IF i > Len(schema.properties.entries)
    THEN [threw |-> FALSE, errors |-> errors]
    ELSE IF ReadThrows(obj)
    THEN [threw |-> TRUE, errors |-> <<>>]
    ELSE LET key == schema.properties.entries[i].key
             propSchema == schema.properties.entries[i].shape
             value == Read(obj, key)
         IN  IF RequiredIncludes(schema, key) /\ value.tag = "undefined"
             THEN ValidateLoop(obj, schema, i + 1, Append(errors, MissingError(key)))
             ELSE IF value.tag # "undefined" /\ ActualType(value) # propSchema.type
             THEN ValidateLoop(obj, schema, i + 1,
                               Append(errors, MismatchError(key, propSchema.type, ActualType(value))))
             ELSE ValidateLoop(obj, schema, i + 1, errors)

\* Faulty variant, for sensitivity runs: the loop runs whatever schema.type is.
validateObjectAnyType(obj, schema) ==
    IF ~schema.defined THEN [threw |-> TRUE, errors |-> <<>>]
    ELSE IF schema.properties.defined
    THEN ValidateLoop(obj, schema, 1, <<>>)
    ELSE [threw |-> FALSE, errors |-> <<>>]

\* validateObject(obj, schema): schema.type is a TypeError on an undefined
\* schema; the loop runs for type "object" with a properties object.
validateObject(obj, schema) ==
    IF ~schema.defined THEN [threw |-> TRUE, errors |-> <<>>]
    ELSE IF schema.type = "object" /\ schema.properties.defined
    THEN ValidateLoop(obj, schema, 1, <<>>)
    ELSE [threw |-> FALSE, errors |-> <<>>]

NoReport == [envelope |-> "none", valid |-> FALSE, errors |-> <<>>]

\* The case body inside the handler's try / catch: the JSON text
\* { valid, errors }, or the Failure envelope of the catch.
validate_response(response, schema) ==
    LET r == validateObject(response, schema)
    IN  IF r.threw
        THEN [envelope |-> "failure", valid |-> FALSE, errors |-> <<>>]
        ELSE [envelope |-> "ok", valid |-> (Len(r.errors) = 0), errors |-> r.errors]

ValidationIdle == [phase |-> "idle", response |-> JsUndefined, schema |-> UndefinedShape, out |-> NoReport]

\* The handler validates args.response against args.schema and replies.
ValidateResponse ==
    /\ validation.phase = "args"
    /\ validation' = [validation EXCEPT !.phase = "done",
                                        !.out = validate_response(validation.response, validation.schema)]
    /\ UNCHANGED <<inv, pgPool, mysqlPool, blame, commit, harness, perf, endpoint, listed, db>>

(***************************************************************************)
(* makeRequest (database-server.js 507-550): the options handed to fetch,  *)
(* the abort timer and the exits of the function.                          *)
(***************************************************************************)
DefaultTimeout == 30000    \* timeout = 30000

UpperChar(c) ==
    IF \E i \in 1..Len(LowerChars) : LowerChars[i] = c
    THEN UpperChars[CHOOSE i \in 1..Len(LowerChars) : LowerChars[i] = c]
    ELSE c

ToUpperCase(s) == [i \in 1..Len(s) |-> UpperChar(s[i])]

MethodGET == <<"G","E","T">>

\* The method argument: undefined, or a string.
NoMethod == [defined |-> FALSE, text |-> <<>>]

Method(text) == [defined |-> TRUE, text |-> text]

Methods == {NoMethod, Method(MethodGET), Method(<<"g","e","t">>), Method(<<"P","O","S","T">>)}

\* The body argument: undefined, null, "", a non-empty string, an object.
Bodies == {"undefined", "null", "empty string", "string", "object"}

\* The timeout argument: undefined, or a number of milliseconds.
NoTimeout == [defined |-> FALSE, ms |-> 0]

Timeouts == {NoTimeout, [defined |-> TRUE, ms |-> 5000]}

\* Default parameters: body = null, timeout = 30000 (for undefined only).
BodyParam(body) == IF body = "undefined" THEN "null" ELSE body

TimeoutParam(timeout) == IF timeout.defined THEN timeout.ms ELSE DefaultTimeout

\* if (body && ...): null and "" are falsy.
Truthy(body) == body \in {"string", "object"}

NoBody == [present |-> FALSE, text |-> ""]

\* Faulty variant, for sensitivity runs: the body is attached whatever the method.
RequestOptionsAnyMethod(method, body) ==
    [method |-> method,
     body |-> IF Truthy(body)
              THEN [present |-> TRUE, text |-> IF body = "string" THEN "as-is" ELSE "JSON.stringify"]
              ELSE NoBody]

\* Lines 508-518: options.method, and options.body when
\* body && method !== "GET" (a string as-is, another value serialized).
RequestOptions(method, body) ==
    [method |-> method,
     body |-> IF Truthy(body) /\ method # Method(MethodGET)
              THEN [present |-> TRUE, text |-> IF body = "string" THEN "as-is" ELSE "JSON.stringify"]
              ELSE NoBody]

\* fetch: the method defaults to GET and get/post/... are upper-cased; a
\* GET request with a body is a TypeError.
FetchMethod(method) == IF method.defined THEN ToUpperCase(method.text) ELSE MethodGET

FetchTypeError(options) == FetchMethod(options.method) = MethodGET /\ options.body.present

\* Faulty variant, for sensitivity runs: the finally block leaves the timer alone.
ClearTimeoutNever(timer) == timer

\* clearTimeout(timeoutId): a pending timer is cancelled.
ClearTimeout(timer) == IF timer = "armed" THEN "cleared" ELSE timer

NoOptions == [method |-> NoMethod, body |-> NoBody]

HarnessIdle ==
    [phase |-> "idle", method |-> NoMethod, body |-> "undefined", timeout |-> NoTimeout,
     options |-> NoOptions, delay |-> 0, timer |-> "none", aborted |-> FALSE, result |-> "none"]

\* The function leaves through its finally block with `result`.
Exit(h, phase, result) == [h EXCEPT !.phase = phase, !.result = result, !.timer = ClearTimeout(@)]

\* makeRequest is called: the options are built, the timer is armed and
\* fetch is called; a request fetch refuses rejects at once.
MakeRequest ==
    /\ harness.phase = "args"
    /\ LET options == RequestOptions(harness.method, BodyParam(harness.body))
           started == [harness EXCEPT !.phase = "fetch", !.options = options,
                                      !.delay = TimeoutParam(harness.timeout),
                                      !.timer = "armed"]
       IN  harness' = IF FetchTypeError(options) THEN Exit(started, "threw", "TypeError") ELSE started
    /\ UNCHANGED <<inv, pgPool, mysqlPool, blame, commit, validation, perf, endpoint, listed, db>>

\* setTimeout(() => controller.abort(), timeout) fires.
TimerFires ==
    /\ harness.timer = "armed"
    /\ harness' = [harness EXCEPT !.timer = "fired", !.aborted = TRUE]
    /\ UNCHANGED <<inv, pgPool, mysqlPool, blame, commit, validation, perf, endpoint, listed, db>>

\* fetch resolves with the response head.
FetchResponds ==
    /\ harness.phase = "fetch"
    /\ ~harness.aborted
    /\ harness' = [harness EXCEPT !.phase = "body"]
    /\ UNCHANGED <<inv, pgPool, mysqlPool, blame, commit, validation, perf, endpoint, listed, db>>

\* fetch rejects: the connection failed.
FetchFails ==
    /\ harness.phase = "fetch"
    /\ ~harness.aborted
    /\ harness' = Exit(harness, "threw", "fetch failed")
    /\ UNCHANGED <<inv, pgPool, mysqlPool, blame, commit, validation, perf, endpoint, listed, db>>

\* The aborted signal rejects the pending fetch or the pending body read.
AbortRejects ==
    /\ harness.phase \in {"fetch", "body"}
    /\ harness.aborted
    /\ harness' = Exit(harness, "threw", "AbortError")
    /\ UNCHANGED <<inv, pgPool, mysqlPool, blame, commit, validation, perf, endpoint, listed, db>>

\* response.json() / response.text() resolves and the result is returned.
BodyRead ==
    /\ harness.phase = "body"
    /\ ~harness.aborted
    /\ harness' = Exit(harness, "returned", "response")
    /\ UNCHANGED <<inv, pgPool, mysqlPool, blame, commit, validation, perf, endpoint, listed, db>>

\* response.json() rejects: the body is no JSON text.
BodyFails ==
    /\ harness.phase = "body"
    /\ ~harness.aborted
    /\ harness' = Exit(harness, "threw", "SyntaxError")
    /\ UNCHANGED <<inv, pgPool, mysqlPool, blame, commit, validation, perf, endpoint, listed, db>>

(***************************************************************************)
(* performance_test (database-server.js 675-713): the request loop and     *)
(* the statistics.  The server's answers are fixed when the run starts: a  *)
(* plan of outcomes, a duration in ms or a failure, taken round robin.     *)
(***************************************************************************)
Durations == {10, 20, 30}

Succeeds(d) == [ok |-> TRUE, duration |-> d]

Fails == [ok |-> FALSE, duration |-> 0]

Outcomes == {Succeeds(d) : d \in Durations} \cup {Fails}

Plans == SeqsUpTo(Outcomes, MaxRequests) \ {<<>>}

\* args.requests: absent, negative, zero, or a positive number.
NoRequests == [defined |-> FALSE, n |-> 0]

RequestsArgs == {NoRequests} \cup {[defined |-> TRUE, n |-> n] : n \in (0 - 1)..MaxRequests}

\* const requests = args.requests || 10
RequestsOrDefault(arg) == IF arg.defined /\ arg.n # 0 THEN arg.n ELSE PerfDefault

\* JavaScript numbers the statistics can hold: a quotient, NaN, +-Infinity.
Number(num, den) == [kind |-> "number", num |-> num, den |-> den]

NaN == [kind |-> "NaN", num |-> 0, den |-> 1]

Infinity == [kind |-> "Infinity", num |-> 0, den |-> 1]

MinusInfinity == [kind |-> "-Infinity", num |-> 0, den |-> 1]

JsonNull == [kind |-> "null", num |-> 0, den |-> 1]

\* JSON.stringify writes NaN and the infinities as null.
JsonNumber(x) == IF x.kind = "number" THEN x ELSE JsonNull

RECURSIVE Reduce(_, _, _)
Reduce(times, i, acc) == IF i > Len(times) THEN acc ELSE Reduce(times, i + 1, acc + times[i])

\* times.reduce((a, b) => a + b, 0) / times.length
AverageTime(times) == IF Len(times) = 0 THEN NaN ELSE Number(Reduce(times, 1, 0), Len(times))

RECURSIVE Least(_, _, _)
Least(times, i, m) ==
    IF i > Len(times) THEN m ELSE Least(times, i + 1, IF times[i] < m THEN times[i] ELSE m)

RECURSIVE Greatest(_, _, _)
Greatest(times, i, m) ==
    IF i > Len(times) THEN m ELSE Greatest(times, i + 1, IF times[i] > m THEN times[i] ELSE m)

\* Math.min(...times)
MathMin(times) == IF Len(times) = 0 THEN Infinity ELSE Number(Least(times, 2, times[1]), 1)

\* Math.max(...times)
MathMax(times) == IF Len(times) = 0 THEN MinusInfinity ELSE Number(Greatest(times, 2, times[1]), 1)

\* Faulty variant, for sensitivity runs: the newest duration goes first.
UnshiftTime(times, duration) == <<duration>> \o times

\* times.push(result.duration)
PushTime(times, duration) == Append(times, duration)

NoStats ==
    [totalRequests |-> 0, successfulRequests |-> 0, failedRequests |-> 0,
     averageTime |-> JsonNull, minTime |-> JsonNull, maxTime |-> JsonNull,
     times |-> <<>>, errors |-> <<>>]

\* Lines 694-703, as JSON.stringify(stats) writes them.
Stats(requests, times, errors) ==
    [totalRequests |-> requests, successfulRequests |-> Len(times), failedRequests |-> Len(errors),
     averageTime |-> JsonNumber(AverageTime(times)),
     minTime |-> JsonNumber(MathMin(times)),
     maxTime |-> JsonNumber(MathMax(times)),
     times |-> times, errors |-> errors]

PerfIdle ==
    [phase |-> "idle", arg |-> NoRequests, plan |-> <<Fails>>, requests |-> 0, i |-> 0,
     issued |-> 0, outstanding |-> 0, times |-> <<>>, errors |-> <<>>, stats |-> NoStats]

\* The answer the server gives to request number k.
Answer(plan, k) == plan[((k - 1) % Len(plan)) + 1]

\* The loop test after the settlement of request i: the next request is
\* issued, or the statistics are returned.
LoopOrReport(p) ==
    IF p.i < p.requests
    THEN [p EXCEPT !.phase = "pending", !.issued = @ + 1, !.outstanding = @ + 1]
    ELSE [p EXCEPT !.phase = "done", !.stats = Stats(p.requests, p.times, p.errors)]

\* The handler starts: requests is fixed and the loop is entered.
PerformanceTest ==
    /\ perf.phase = "args"
    /\ perf' = LoopOrReport([perf EXCEPT !.requests = RequestsOrDefault(perf.arg)])
    /\ UNCHANGED <<inv, pgPool, mysqlPool, blame, commit, validation, harness, endpoint, listed, db>>

\* The awaited makeRequest resolves: its duration is recorded.
RequestSucceeds ==
    /\ perf.phase = "pending"
    /\ Answer(perf.plan, perf.issued).ok
    /\ perf' = LoopOrReport([perf EXCEPT !.outstanding = @ - 1, !.i = @ + 1,
                                         !.times = PushTime(@, Answer(perf.plan, perf.issued).duration)])
    /\ UNCHANGED <<inv, pgPool, mysqlPool, blame, commit, validation, harness, endpoint, listed, db>>

\* Faulty variant, for sensitivity runs: the loop has no try / catch and the
\* error leaves the case body.
RequestErrorEscapes(p) == [p EXCEPT !.phase = "failed", !.outstanding = @ - 1]

\* catch (error) { errors.push(error.message) } and the loop goes on.
RequestErrorCaught(p) ==
    LoopOrReport([p EXCEPT !.outstanding = @ - 1, !.i = @ + 1,
                           !.errors = Append(@, "error.message")])

\* The awaited makeRequest rejects: the message is recorded.
RequestFails ==
    /\ perf.phase = "pending"
    /\ ~Answer(perf.plan, perf.issued).ok
    /\ perf' = RequestErrorCaught(perf)
    /\ UNCHANGED <<inv, pgPool, mysqlPool, blame, commit, validation, harness, endpoint, listed, db>>

(***************************************************************************)
(* test_endpoint (database-server.js 575-621): the scenario loop and the   *)
(* summary.  Each scenario has a name and an expected status; the server's *)
(* answer to each request is fixed when the run starts.                    *)
(***************************************************************************)
Scenario(name, expectedStatus) == [name |-> name, expectedStatus |-> expectedStatus]

\* args.tests: up to MaxTests scenarios, named by their position.
TestLists ==
    UNION {{[k \in 1..n |-> Scenario(k, ex[k])] : ex \in [1..n -> {200, 404}]} : n \in 0..MaxTests}

Reply(status, duration) == [ok |-> TRUE, status |-> status, duration |-> duration]

NoReply == [ok |-> FALSE, status |-> 0, duration |-> 0]

Replies == {Reply(200, 10), Reply(404, 20), NoReply}

\* results.push({ name, passed, expected, actual, duration, response })
PassResult(test, reply) ==
    [name |-> test.name, passed |-> (reply.status = test.expectedStatus),
     expected |-> test.expectedStatus, actual |-> reply.status,
     duration |-> reply.duration, error |-> ""]

\* results.push({ name, passed: false, error: error.message })
ErrorResult(test) ==
    [name |-> test.name, passed |-> FALSE, expected |-> 0, actual |-> 0,
     duration |-> 0, error |-> "error.message"]

NoSummary == [total |-> 0, passed |-> 0, failed |-> 0, results |-> <<>>]

\* Lines 606-611.
SummaryOf(results) ==
    [total |-> Len(results),
     passed |-> Len(SelectSeq(results, LAMBDA r : r.passed)),
     failed |-> Len(SelectSeq(results, LAMBDA r : ~r.passed)),
     results |-> results]

EndpointIdle ==
    [phase |-> "idle", tests |-> <<>>, plan |-> <<>>, i |-> 0, issued |-> 0,
     outstanding |-> 0, results |-> <<>>, summary |-> NoSummary]

\* Faulty variant, for sensitivity runs: the requests of all scenarios are
\* started together.
IssueAllScenarios(e) ==
    IF e.i < Len(e.tests)
    THEN [e EXCEPT !.phase = "pending", !.issued = Len(e.tests),
                   !.outstanding = Len(e.tests) - e.i]
    ELSE [e EXCEPT !.phase = "done", !.summary = SummaryOf(e.results)]

\* for (const test of args.tests): the request of the next scenario is
\* issued, or the summary is returned.
NextScenario(e) ==
    IF e.i < Len(e.tests)
    THEN [e EXCEPT !.phase = "pending", !.issued = @ + 1, !.outstanding = @ + 1]
    ELSE [e EXCEPT !.phase = "done", !.summary = SummaryOf(e.results)]

\* Faulty variant, for sensitivity runs: the loop has no try / catch and the
\* error leaves the case body.
ScenarioErrorEscapes(e) == [e EXCEPT !.phase = "failed", !.outstanding = @ - 1]

\* catch (error) { results.push(...) } and the loop goes on.
ScenarioErrorCaught(e) ==
    NextScenario([e EXCEPT !.outstanding = @ - 1, !.i = @ + 1,
                           !.results = Append(@, ErrorResult(e.tests[e.issued]))])

\* The handler starts and enters the loop.
TestEndpoint ==
    /\ endpoint.phase = "args"
    /\ endpoint' = NextScenario(endpoint)
    /\ UNCHANGED <<inv, pgPool, mysqlPool, blame, commit, validation, harness, perf, listed, db>>

\* The awaited makeRequest resolves: the scenario's result is recorded.
ScenarioResponds ==
    /\ endpoint.phase = "pending"
    /\ endpoint.plan[endpoint.issued].ok
    /\ endpoint' = NextScenario([endpoint EXCEPT
                        !.outstanding = @ - 1, !.i = @ + 1,
                        !.results = Append(@, PassResult(endpoint.tests[endpoint.issued],
                                                         endpoint.plan[endpoint.issued]))])
    /\ UNCHANGED <<inv, pgPool, mysqlPool, blame, commit, validation, harness, perf, listed, db>>

\* The awaited makeRequest rejects: a failed result is recorded.
ScenarioFails ==
    /\ endpoint.phase = "pending"
    /\ ~endpoint.plan[endpoint.issued].ok
    /\ endpoint' = ScenarioErrorCaught(endpoint)
    /\ UNCHANGED <<inv, pgPool, mysqlPool, blame, commit, validation, harness, perf, listed, db>>

(***************************************************************************)
(* The dispatcher's state and actions.                                     *)
(***************************************************************************)
NoEnvelope == [content |-> <<>>, isError |-> FALSE]

\* return { content: [{ type: "text", text }], isError? }
Envelope(step) == [content |-> <<[type |-> "text", text |-> step.text]>>, isError |-> step.isError]

NoCall == [kind |-> "", beh |-> NoBehaviour]

InvIdle ==
    [server |-> "", name |-> "", args |-> Undefined, pc |-> "idle", at |-> 0,
     loc |-> Locals, call |-> NoCall, settled |-> NoCall, res |-> NoSettlement,
     issued |-> 0, envelopes |-> 0, env |-> NoEnvelope]

Globals == [pg |-> pgPool, mysql |-> mysqlPool]

\* The handler ran up to `step`: it awaits an external call whose behaviour
\* is `beh`, it returned an envelope, or its exception left the handler.
Advance(from, step, beh) ==
    /\ inv' = IF step.t = "await"
              THEN [from EXCEPT !.pc = "await", !.at = @ + 1, !.loc = step.loc,
                                !.call = [kind |-> step.kind, beh |-> beh],
                                !.issued = @ + 1]
              ELSE IF step.t = "return"
              THEN [from EXCEPT !.pc = "done", !.loc = step.loc, !.call = NoCall,
                                !.env = Envelope(step), !.envelopes = @ + 1]
              ELSE [from EXCEPT !.pc = "escaped", !.call = NoCall]
    /\ pgPool' = IF step.pool = "pg" THEN 1 ELSE pgPool
    /\ mysqlPool' = IF step.pool = "mysql" THEN 1 ELSE mysqlPool
    /\ UNCHANGED <<blame, commit, validation, harness, perf, endpoint, listed, db>>

\* A call-tool request arrives and its handler runs to its first await or to
\* its end.
RequestAt(s) ==
    /\ inv.pc = "idle"
    /\ \E name \in ToolNames :
         \E a \in ArgumentBags(name) :
            LET fresh == [InvIdle EXCEPT !.server = s, !.name = name, !.args = a]
                step == CallTool(s, name, a, 0, Locals, NoSettlement, Globals)
            IN  \E beh \in Behaviours(step.kind) : Advance(fresh, step, beh)

Request == \E s \in Servers : RequestAt(s)

\* The awaited promise settles with `res` and the handler runs on.
Continue(res) ==
    LET step == CallTool(inv.server, inv.name, inv.args, inv.at, inv.loc, res, Globals)
        from == [inv EXCEPT !.settled = inv.call, !.res = res]
    IN  \E beh \in Behaviours(step.kind) : Advance(from, step, beh)

\* The child process of a pending execAsync terminated or failed to spawn.
ExecSettle ==
    /\ inv.pc = "await"
    /\ inv.call.kind = "exec"
    /\ inv.call.beh.end # "never"
    /\ Continue(execAsync(inv.call.beh))

ReadFileSettle ==
    /\ inv.pc = "await"
    /\ inv.call.kind = "readFile"
    /\ Continue(readFile(inv.call.beh))

QuerySettle ==
    /\ inv.pc = "await"
    /\ inv.call.kind = "query"
    /\ Continue(query(inv.call.beh))

CreatePoolSettle ==
    /\ inv.pc = "await"
    /\ inv.call.kind = "createPool"
    /\ Continue(createPool(inv.call.beh))

\* The fetch of makeRequest settled: a response, a transport error, or the
\* abort by the timeout timer.
FetchSettle ==
    /\ inv.pc = "await"
    /\ inv.call.kind = "fetch"
    /\ Continue(makeRequest(inv.call.beh))

\* The envelope is written to the channel; the server waits for a request.
Respond ==
    /\ inv.pc = "done"
    /\ inv' = InvIdle
    /\ UNCHANGED <<pgPool, mysqlPool, blame, commit, validation, harness, perf, endpoint, listed, db>>

(***************************************************************************)
(* The list-tools handler of one server process: it returns the literal    *)
(* array of descriptors, here their names.  `listed` keeps the first and   *)
(* the latest listing the process gave.                                    *)
(***************************************************************************)
NoListing == [server |-> "", first |-> <<>>, last |-> <<>>]

\* Faulty variant, for sensitivity runs: a tool whose call is in flight is left out.
ListToolsResultWithoutBusy(s) ==
    [tools |-> SelectSeq(Registry(s), LAMBDA n : ~(inv.pc = "await" /\ inv.name = n))]

\* return { tools: [ ... ] }
ListToolsResult(s) == [tools |-> Registry(s)]

ListTools ==
    /\ listed.server # ""
    /\ listed' = [listed EXCEPT
                    !.first = IF @ = <<>> THEN ListToolsResult(listed.server).tools ELSE @,
                    !.last = ListToolsResult(listed.server).tools]
    /\ UNCHANGED <<inv, pgPool, mysqlPool, blame, commit, validation, harness, perf,
                   endpoint, db>>

(***************************************************************************)
(* database-server.js with call-tool handlers that overlap: a handler that *)
(* awaits gives way to the next request.  Pool objects are numbered in the *)
(* order of their construction; pgPool and mysqlPool hold the number of    *)
(* the object they refer to, 0 for null.                                   *)
(***************************************************************************)
Handlers == {"a", "b"}

DbIdle ==
    [name |-> "", args |-> Undefined, pc |-> "idle", at |-> 0, loc |-> Locals,
     call |-> NoCall, made |-> 0, pool |-> 0, touched |-> {}, env |-> NoEnvelope]

PoolsIdle == [handlers |-> [h \in Handlers |-> DbIdle], pgMade |-> 0, mysqlMade |-> 0]

\* Handler h ran up to `step`.  getPgPool() constructs and assigns in one
\* go; getMysqlPool() calls mysql.createPool when mysqlPool is null, awaits
\* it, and assigns mysqlPool when it is resumed.
DbAdvance(h, from, step, beh) ==
    LET usesPg == step.t = "await" /\ step.loc.stage = "pg-query"
        newPg == usesPg /\ pgPool = 0
        creating == step.t = "await" /\ step.kind = "createPool"
        assigning == step.pool = "mysql"
        usesMysql == step.t = "await" /\ step.loc.stage = "mysql-query"
        pg == IF newPg THEN db.pgMade + 1 ELSE pgPool
        my == IF assigning THEN from.made ELSE mysqlPool
        ran == IF step.t = "await"
               THEN [from EXCEPT !.pc = "await", !.at = @ + 1, !.loc = step.loc,
                                 !.call = [kind |-> step.kind, beh |-> beh]]
               ELSE [from EXCEPT !.pc = "done", !.call = NoCall, !.env = Envelope(step)]
        now == [ran EXCEPT
                  !.made = IF creating THEN db.mysqlMade + 1 ELSE @,
                  !.pool = IF usesPg THEN pg ELSE IF usesMysql THEN my ELSE @,
                  !.touched = @ \cup (IF usesPg THEN {"pg"} ELSE {})
                                \cup (IF creating \/ usesMysql THEN {"mysql"} ELSE {})]
    IN  /\ pgPool' = pg
        /\ mysqlPool' = my
        /\ db' = [handlers |-> [db.handlers EXCEPT ![h] = now],
                  pgMade |-> IF newPg THEN db.pgMade + 1 ELSE db.pgMade,
                  mysqlMade |-> IF creating THEN db.mysqlMade + 1 ELSE db.mysqlMade]
        /\ UNCHANGED <<inv, blame, commit, validation, harness, perf, endpoint, listed>>

DbRequest(h) ==
    /\ db.handlers[h].pc = "idle"
    /\ \E name \in Range(DatabaseTools) :
         \E a \in ArgumentBags(name) :
            LET fresh == [DbIdle EXCEPT !.name = name, !.args = a]
                step == CallTool("database-server.js", name, a, 0, Locals, NoSettlement, Globals)
            IN  \E beh \in Behaviours(step.kind) : DbAdvance(h, fresh, step, beh)

DbContinue(h, res) ==
    LET from == db.handlers[h]
        step == CallTool("database-server.js", from.name, from.args, from.at, from.loc,
                         res, Globals)
    IN  \E beh \in Behaviours(step.kind) : DbAdvance(h, from, step, beh)

DbQuerySettle(h) ==
    /\ db.handlers[h].pc = "await"
    /\ db.handlers[h].call.kind = "query"
    /\ DbContinue(h, query(db.handlers[h].call.beh))

DbCreatePoolSettle(h) ==
    /\ db.handlers[h].pc = "await"
    /\ db.handlers[h].call.kind = "createPool"
    /\ DbContinue(h, createPool(db.handlers[h].call.beh))

DbRespond(h) ==
    /\ db.handlers[h].pc = "done"
    /\ db' = [db EXCEPT !.handlers[h] = DbIdle]
    /\ UNCHANGED <<inv, pgPool, mysqlPool, blame, commit, validation, harness, perf,
                   endpoint, listed>>

Init ==
    /\ inv = InvIdle
    /\ pgPool = 0
    /\ mysqlPool = 0
    /\ blame = BlameIdle
    /\ commit = CommitIdle
    /\ validation = ValidationIdle
    /\ harness = HarnessIdle
    /\ perf = PerfIdle
    /\ endpoint = EndpointIdle
    /\ listed = NoListing
    /\ db = PoolsIdle

Next ==
    \/ Request
    \/ ExecSettle
    \/ ReadFileSettle
    \/ QuerySettle
    \/ CreatePoolSettle
    \/ FetchSettle
    \/ Respond

Spec == Init /\ [][Next]_vars

(***************************************************************************)
(* Specifications of the two pure handler bodies.                          *)
(***************************************************************************)
InitBlame ==
    /\ inv = InvIdle
    /\ pgPool = 0
    /\ mysqlPool = 0
    /\ commit = CommitIdle
    /\ validation = ValidationIdle
    /\ harness = HarnessIdle
    /\ perf = PerfIdle
    /\ endpoint = EndpointIdle
    /\ listed = NoListing
    /\ db = PoolsIdle
    /\ blame \in {[version |-> v, phase |-> "stdout", lines |-> StdoutLines(k), out |-> NoBlame] :
                    v \in Versions, k \in SeqsUpTo(LineKinds, MaxLines)}

NextBlame == ParseBlame \/ ParseBlameOld

SpecBlame == InitBlame /\ [][NextBlame]_vars

InitClassify ==
    /\ inv = InvIdle
    /\ pgPool = 0
    /\ mysqlPool = 0
    /\ blame = BlameIdle
    /\ validation = ValidationIdle
    /\ harness = HarnessIdle
    /\ perf = PerfIdle
    /\ endpoint = EndpointIdle
    /\ listed = NoListing
    /\ db = PoolsIdle
    /\ \E ps \in PathLists : \E st \in StatusLists(Len(ps)) :
          commit = [phase |-> "staged", diff |-> Diff(ps, st), out |-> NoMessage]

NextClassify == ClassifyStaged

SpecClassify == InitClassify /\ [][NextClassify]_vars

InitValidate ==
    /\ inv = InvIdle
    /\ pgPool = 0
    /\ mysqlPool = 0
    /\ blame = BlameIdle
    /\ commit = CommitIdle
    /\ harness = HarnessIdle
    /\ perf = PerfIdle
    /\ endpoint = EndpointIdle
    /\ listed = NoListing
    /\ db = PoolsIdle
    /\ \E v \in Responses : \E sh \in Shapes :
          validation = [phase |-> "args", response |-> v, schema |-> sh, out |-> NoReport]

NextValidate == ValidateResponse

SpecValidate == InitValidate /\ [][NextValidate]_vars

InitRequest ==
    /\ inv = InvIdle
    /\ pgPool = 0
    /\ mysqlPool = 0
    /\ blame = BlameIdle
    /\ commit = CommitIdle
    /\ validation = ValidationIdle
    /\ perf = PerfIdle
    /\ endpoint = EndpointIdle
    /\ listed = NoListing
    /\ db = PoolsIdle
    /\ \E m \in Methods, b \in Bodies, t \in Timeouts :
          harness = [HarnessIdle EXCEPT !.phase = "args", !.method = m, !.body = b, !.timeout = t]

NextRequest ==
    \/ MakeRequest
    \/ TimerFires
    \/ FetchResponds
    \/ FetchFails
    \/ AbortRejects
    \/ BodyRead
    \/ BodyFails

InitPerf ==
    /\ inv = InvIdle
    /\ pgPool = 0
    /\ mysqlPool = 0
    /\ blame = BlameIdle
    /\ commit = CommitIdle
    /\ validation = ValidationIdle
    /\ harness = HarnessIdle
    /\ endpoint = EndpointIdle
    /\ listed = NoListing
    /\ db = PoolsIdle
    /\ \E a \in RequestsArgs, pl \in Plans :
          perf = [PerfIdle EXCEPT !.phase = "args", !.arg = a, !.plan = pl]

NextPerf == PerformanceTest \/ RequestSucceeds \/ RequestFails

SpecPerf == InitPerf /\ [][NextPerf]_vars

InitEndpoint ==
    /\ inv = InvIdle
    /\ pgPool = 0
    /\ mysqlPool = 0
    /\ blame = BlameIdle
    /\ commit = CommitIdle
    /\ validation = ValidationIdle
    /\ harness = HarnessIdle
    /\ perf = PerfIdle
    /\ \E ts \in TestLists : \E pl \in [1..Len(ts) -> Replies] :
          endpoint = [EndpointIdle EXCEPT !.phase = "args", !.tests = ts, !.plan = pl]
    /\ listed = NoListing
    /\ db = PoolsIdle

NextEndpoint == TestEndpoint \/ ScenarioResponds \/ ScenarioFails

\* The two handlers that loop over sub-requests: a run of either.
(***************************************************************************)
(* One server process with its list-tools and call-tool handlers.          *)
(***************************************************************************)
InitRegistry ==
    /\ inv = InvIdle
    /\ pgPool = 0
    /\ mysqlPool = 0
    /\ blame = BlameIdle
    /\ commit = CommitIdle
    /\ validation = ValidationIdle
    /\ harness = HarnessIdle
    /\ perf = PerfIdle
    /\ endpoint = EndpointIdle
    /\ db = PoolsIdle
    /\ \E s \in Servers : listed = [NoListing EXCEPT !.server = s]

NextRegistry ==
    \/ ListTools
    \/ RequestAt(listed.server)
    \/ ExecSettle
    \/ ReadFileSettle
    \/ QuerySettle
    \/ CreatePoolSettle
    \/ FetchSettle
    \/ Respond

SpecRegistry == InitRegistry /\ [][NextRegistry]_vars

(***************************************************************************)
(* The database server with overlapping handlers.                          *)
(***************************************************************************)
NextPools ==
    \/ \E h \in Handlers : DbRequest(h)
    \/ \E h \in Handlers : DbQuerySettle(h)
    \/ \E h \in Handlers : DbCreatePoolSettle(h)
    \/ \E h \in Handlers : DbRespond(h)

SpecPools == Init /\ [][NextPools]_vars

InitLoops == InitPerf \/ InitEndpoint

NextLoops == NextPerf \/ NextEndpoint

SpecLoops == InitLoops /\ [][NextLoops]_vars

\* A due timer fires (the event loop runs it) and fetch honours its signal.
SpecRequest ==
    InitRequest /\ [][NextRequest]_vars /\ WF_vars(TimerFires) /\ WF_vars(AbortRejects)

(***************************************************************************)
(* Properties of the dispatcher and of the process runner.                 *)
(***************************************************************************)
Listed(s, name) == name \in Range(Registry(s))

UnknownToolText(name) == <<"Error: ", "Unknown tool: ", name>>

\* C1: whatever the tool name, the argument bag (an undefined one included)
\* and the outcome of the external calls, no exception leaves the call-tool
\* handler, nothing is returned while it awaits, and what it returns is one
\* envelope: content blocks without isError, or a single text block with
\* isError = true.
C1_ExactlyOneEnvelope ==
    /\ inv.pc # "escaped"
    /\ inv.pc = "await" => (inv.envelopes = 0 /\ inv.env = NoEnvelope)
    /\ inv.pc = "done" =>
        /\ inv.envelopes = 1
        /\ Len(inv.env.content) >= 1
        /\ inv.env.isError => (Len(inv.env.content) = 1 /\ inv.env.content[1].type = "text")

\* The second command of a two-command handler failed and the invocation
\* ended with a Failure envelope.
C1_Witness ==
    /\ inv.pc = "done"
    /\ inv.issued = 2
    /\ ~inv.res.ok
    /\ inv.env.isError

\* C2: a tool name outside the server's listed registry gives a Failure
\* envelope whose text reports the unknown tool by name, and no external
\* command, request or query is issued for that invocation.
C2_UnknownToolFailure ==
    (inv.pc # "idle" /\ ~Listed(inv.server, inv.name)) =>
        /\ inv.pc = "done"
        /\ inv.issued = 0
        /\ inv.env.isError
        /\ Len(inv.env.content) = 1
        /\ inv.env.content[1].text = UnknownToolText(inv.name)

\* git-server.js is asked for docker_ps, a tool only the devtools server lists.
C2_Witness ==
    /\ inv.pc = "done"
    /\ inv.server = "git-server.js"
    /\ inv.name = "docker_ps"
    /\ inv.args.defined

\* C3: a tool name that is in the registry never ends in the unknown-tool
\* failure, whatever the argument bag.
C3_ListedToolNeverUnknown ==
    (inv.pc = "done" /\ Listed(inv.server, inv.name)) =>
        inv.env.content[1].text # UnknownToolText(inv.name)

\* C4 as claimed: whenever the process could be spawned the handler receives
\* both stdout and stderr, and a failure reaches the handler only when the
\* process could not be spawned.
C4_NonZeroExitIsNoFailure ==
    (inv.settled.kind = "exec") =>
        /\ inv.settled.beh.end = "exit" =>
              /\ inv.res.ok
              /\ inv.res.stdout = inv.settled.beh.stdout
              /\ inv.res.stderr = inv.settled.beh.stderr
        /\ ~inv.res.ok => inv.settled.beh.end = "spawn-error"

\* C4 as amended: the handler receives both stdout and stderr exactly when
\* the process was spawned and exited with status 0, whatever it wrote to
\* stderr; a non-zero exit status or a spawn failure reaches the handler as a
\* failure, and git_push and run_command then end in a Failure envelope.
C4_ExitStatusDecides ==
    (inv.settled.kind = "exec") =>
        /\ inv.res.ok <=> (inv.settled.beh.end = "exit" /\ inv.settled.beh.code = 0)
        /\ inv.res.ok =>
              /\ inv.res.stdout = inv.settled.beh.stdout
              /\ inv.res.stderr = inv.settled.beh.stderr
        /\ (inv.pc = "done" /\ inv.name \in {"git_push", "run_command"}) =>
              /\ inv.env.isError <=> ~inv.res.ok
              /\ ~inv.env.isError =>
                    /\ inv.res.stdout \in Range(inv.env.content[1].text)
                    /\ inv.res.stderr \in Range(inv.env.content[1].text)

\* git push printed to both streams and exited with status 1.
C4_Witness ==
    /\ inv.pc = "done"
    /\ inv.name = "git_push"
    /\ inv.settled.beh = Behaviour("exit", 1, "out", "err")
    /\ inv.env.isError

\* C5: a pending process-runner call can always still be ended, by the
\* process or by a timeout: an invocation awaiting one never hangs.
C5_RunnerCallResolves ==
    (inv.pc = "await" /\ inv.call.kind = "exec") => ENABLED Next

(***************************************************************************)
(* Properties of the blame parser.                                         *)
(***************************************************************************)
IsContentLine(line) == StartsWith(line, <<Tab>>)

ContentIndices(lines) == {i \in 1..Len(lines) : IsContentLine(lines[i])}

\* The index in the stream of its j-th content line.
NthContent(lines, j) ==
    CHOOSE i \in ContentIndices(lines) :
        Cardinality({k \in ContentIndices(lines) : k < i}) = j - 1

Latest(S) == IF S = {} THEN 0 ELSE CHOOSE m \in S : \A x \in S : x <= m

\* The commit-info line that opens the block line i lies in (0: none).
BlockOf(lines, i) == Latest({c \in 1..(i - 1) : MatchesCommit(lines[c])})

\* The last line with the tag between the opening of the block and line i.
TaggedInBlock(lines, i, tag) ==
    Latest({a \in (BlockOf(lines, i) + 1)..(i - 1) : StartsWith(lines[a], tag)})

\* The stream is made of commit-info blocks: no author, author-time or
\* content line comes before the first commit-info line.
BlockStream(lines) ==
    \A i \in 1..Len(lines) :
        (IsContentLine(lines[i]) \/ StartsWith(lines[i], AuthorTag) \/ StartsWith(lines[i], TimeTag))
            => BlockOf(lines, i) > 0

\* C6: for a stream made of commit-info blocks the parser emits one record
\* per content line, in stream order, and each record carries the first 8
\* characters of the hash of the nearest preceding commit-info line and the
\* author and date given inside that block only; an author or date of an
\* earlier block is absent from a record of a later block.
C6_BlameAttribution ==
    (blame.phase = "done" /\ BlockStream(blame.lines)) =>
        LET lines == blame.lines
            recs == blame.out.blameLines
        IN  /\ Len(recs) = Cardinality(ContentIndices(lines))
            /\ \A j \in 1..Len(recs) :
                 LET i == NthContent(lines, j)
                     c == BlockOf(lines, i)
                     a == TaggedInBlock(lines, i, AuthorTag)
                     t == TaggedInBlock(lines, i, TimeTag)
                 IN  /\ recs[j]["content"] = SubSeq(lines[i], 2, Len(lines[i]))
                     /\ recs[j]["hash"] = SubSeq(lines[c], 1, 8)
                     /\ IF a = 0 THEN ~Has(recs[j], "author")
                        ELSE /\ Has(recs[j], "author")
                             /\ recs[j]["author"] = SubSeq(lines[a], 8, Len(lines[a]))
                     /\ IF t = 0 THEN ~Has(recs[j], "date")
                        ELSE /\ Has(recs[j], "date")
                             /\ recs[j]["date"] = [valid |-> TRUE, day |-> 2]

\* Two blocks of different commits, the first with an author line and the
\* second without one, each with a content line.
C6_Witness ==
    /\ blame.phase = "done"
    /\ blame.version = "git-server.js"
    /\ BlockStream(blame.lines)
    /\ Len(blame.out.blameLines) = 2
    /\ Has(blame.out.blameLines[1], "author")
    /\ ~Has(blame.out.blameLines[2], "author")
    /\ blame.out.blameLines[1]["hash"] # blame.out.blameLines[2]["hash"]

\* C7: every record's lineNumber is the 1-based number of the source line
\* whose content it carries, one record per source line in order, also when
\* several content lines follow one commit-info line.
C7_LineNumberMatchesSourceLine ==
    (blame.phase = "done" /\ blame.version = "git-server.js" /\ BlockStream(blame.lines)) =>
        \A j \in 1..Len(blame.out.blameLines) :
            /\ Has(blame.out.blameLines[j], "line")
            /\ blame.out.blameLines[j]["line"] = Dec(j)
            /\ blame.out.blameLines[j]["content"] = <<"L">> \o Dec(j)

\* C8: a content line ahead of every commit-info line still gives one record
\* with the content verbatim and no attribution field, and the invocation
\* does not fail.
C8_ContentBeforeCommitInfo ==
    (/\ blame.phase = "done"
     /\ blame.version = "git-server.js"
     /\ Len(blame.lines) >= 1
     /\ IsContentLine(blame.lines[1])) =>
        /\ ~blame.out.threw
        /\ Len(blame.out.blameLines) >= 1
        /\ DOMAIN blame.out.blameLines[1] = {"content"}
        /\ blame.out.blameLines[1]["content"] = SubSeq(blame.lines[1], 2, Len(blame.lines[1]))

(***************************************************************************)
(* Properties of the commit classifier.                                    *)
(***************************************************************************)
AllAdded(files) == \A i \in 1..Len(files) : files[i].status = StatusA

HasManifestPath(files) ==
    \E i \in 1..Len(files) : files[i].file = PathPackage \/ files[i].file = PathLock

\* C9: the type is feat exactly when every change record is an Added file
\* and no manifest override applies; the summary is then "add N new files"
\* for N > 1 files and "add '<path>'" for one file.
C9_FeatExactlyWhenAllAdded ==
    (commit.phase = "done" /\ commit.out.staged) =>
        LET files == commit.out.body
        IN  /\ (commit.out.type = "feat") <=> (AllAdded(files) /\ ~HasManifestPath(files))
            /\ (AllAdded(files) /\ ~HasManifestPath(files)) =>
                 commit.out.summary =
                    IF Len(files) > 1
                    THEN Summary("add N new files", Len(files), <<>>)
                    ELSE Summary("add 'file'", 0, files[1].file)

\* C10: a changed path that is exactly package.json or package-lock.json
\* forces type chore with the summary "update dependencies or project
\* config", whatever the rule chain decided; without such a path (a path
\* that only ends in such a name included) the override summary is not used.
C10_ManifestOverride ==
    (commit.phase = "done" /\ commit.out.staged) =>
        IF HasManifestPath(commit.out.body)
        THEN /\ commit.out.type = "chore"
             /\ commit.out.summary = Summary("update dependencies or project config", 0, <<>>)
        ELSE /\ commit.out.summary.text # "update dependencies or project config"
             /\ commit.out.type = RuleChain(commit.out.body).type

\* An Added package.json beside other Added files: rule 1 says feat, the
\* override makes it chore; sub/package.json is in the list as well.
C10_Witness ==
    /\ commit.phase = "done"
    /\ \E i \in 1..Len(commit.out.body) : commit.out.body[i].file = PathPackage
    /\ \E i \in 1..Len(commit.out.body) : commit.out.body[i].file = PathSubPackage
    /\ RuleChain(commit.out.body).type = "feat"
    /\ commit.out.type = "chore"

\* The rule premises, as the rules are stated: documentation-like and
\* test-like paths, and the Modified records of a change list.
DocLike(file) == EndsWith(file, <<".","m","d">>) \/ Includes(ToLowerCase(file), <<"r","e","a","d","m","e">>)

TestLike(file) == Includes(file, <<"t","e","s","t">>) \/ Includes(file, <<"s","p","e","c">>)

AllDocLike(files) == \A i \in 1..Len(files) : DocLike(files[i].file)

SomeTestLike(files) == \E i \in 1..Len(files) : TestLike(files[i].file)

ModifiedOf(files) == SelectSeq(files, LAMBDA f : f.status = StatusM)

\* C11: when not every record is Added (rule 1 does not apply) and every
\* path ends in ".md" or contains "readme" in any case, the result is type
\* docs with summary "update documentation".
C11_DocsRule ==
    (commit.phase = "done" /\ commit.out.staged) =>
        LET files == commit.out.body
        IN  (~AllAdded(files) /\ AllDocLike(files)) =>
                /\ commit.out.type = "docs"
                /\ commit.out.summary = Summary("update documentation", 0, <<>>)

\* C12: when rules 1 and 2 do not apply, no manifest override applies and
\* some path contains "test" or "spec", the result is type test with summary
\* "update tests", Modified records or not.
C12_TestRule ==
    (commit.phase = "done" /\ commit.out.staged) =>
        LET files == commit.out.body
        IN  (~AllAdded(files) /\ ~AllDocLike(files) /\ SomeTestLike(files) /\ ~HasManifestPath(files)) =>
                /\ commit.out.type = "test"
                /\ commit.out.summary = Summary("update tests", 0, <<>>)

\* C13: when rules 1-3 do not apply and no manifest override applies, a list
\* with Modified records gives type fix with summary "update N files" (N > 1
\* Modified records) or "update '<path>'" (one), and a list without Modified
\* records gives type chore with summary "update project structure".
C13_FixThenFallback ==
    (commit.phase = "done" /\ commit.out.staged) =>
        LET files == commit.out.body
            mod == ModifiedOf(files)
        IN  (~AllAdded(files) /\ ~AllDocLike(files) /\ ~SomeTestLike(files) /\ ~HasManifestPath(files)) =>
                IF Len(mod) > 0
                THEN /\ commit.out.type = "fix"
                     /\ commit.out.summary =
                            IF Len(mod) > 1 THEN Summary("update N files", Len(mod), <<>>)
                            ELSE Summary("update 'file'", 0, mod[1].file)
                ELSE /\ commit.out.type = "chore"
                     /\ commit.out.summary = Summary("update project structure", 0, <<>>)

(***************************************************************************)
(* Properties of the structural validator.                                 *)
(***************************************************************************)
\* The validator walks the declared properties of the shape over a value
\* whose fields can be read.
Walked ==
    /\ validation.phase = "done"
    /\ validation.schema.defined
    /\ validation.schema.type = "object"
    /\ validation.schema.properties.defined
    /\ validation.response.tag \notin {"undefined", "null"}

Declared == validation.schema.properties.entries

ListedRequired(key) ==
    /\ validation.schema.required.defined
    /\ key \in Range(validation.schema.required.entries)

FieldAbsent(key) ==
    validation.response.tag # "object" \/ validation.response.fields[key].tag = "undefined"

ErrorsAt(key) == SelectSeq(validation.out.errors, LAMBDA e : e.path = key)

DeclaredAt(key) == CHOOSE i \in 1..Len(Declared) : Declared[i].key = key

RuntimeTag(value) ==
    CASE value.tag = "array" -> "array"
      [] value.tag \in {"object", "null"} -> "object"
      [] OTHER -> value.tag

\* C15: a declared property whose field is present gets exactly one
\* type-mismatch error, naming the declared and the runtime tag, when the
\* two tags differ, and no error when they are equal.
C15_TypeMismatch ==
    (Walked /\ validation.response.tag = "object") =>
        \A i \in 1..Len(Declared) :
            LET key == Declared[i].key
                value == validation.response.fields[key]
                expected == Declared[i].shape.type
            IN  value.tag # "undefined" =>
                    ErrorsAt(key) = IF RuntimeTag(value) # expected
                                    THEN <<MismatchError(key, expected, RuntimeTag(value))>>
                                    ELSE <<>>

\* An array under a property declared "object" is reported as an array, and
\* an array under a property declared "array" is not reported.
C15_Witness ==
    /\ validation.phase = "done"
    /\ validation.response.tag = "object"
    /\ validation.response.fields["id"].tag = "array"
    /\ validation.response.fields["user"].tag = "array"
    /\ validation.out.errors = <<MismatchError("id", "object", "array")>>
    /\ Len(Declared) = 2
    /\ Declared[2].shape.type = "array"

\* C16: the validator never throws: every (value, shape) pair gives the
\* report { valid, errors } with valid exactly when there is no error.
C16_NeverThrows ==
    validation.phase = "done" =>
        /\ validation.out.envelope = "ok"
        /\ validation.out.valid <=> (validation.out.errors = <<>>)

\* C17: a property with a nested object shape is checked for its own type
\* tag only: an object under it gives no error, whatever the nested shape
\* requires of its fields, and every error names a top-level property.
C17_NoNestedCheck ==
    (Walked /\ validation.response.tag = "object") =>
        /\ \A i \in 1..Len(Declared) :
              (Declared[i].shape = NestedShape /\ validation.response.fields[Declared[i].key].tag = "object")
                  => ErrorsAt(Declared[i].key) = <<>>
        /\ \A j \in 1..Len(validation.out.errors) :
              validation.out.errors[j].path \in {Declared[i].key : i \in 1..Len(Declared)}

\* { user: {} } against a shape whose property user is an object shape that
\* requires id: the report is valid.
C17_Witness ==
    /\ validation.phase = "done"
    /\ validation.response.tag = "object"
    /\ validation.response.fields["user"] = [tag |-> "object", fields |-> NoFields]
    /\ validation.schema.type = "object"
    /\ validation.schema.properties = Present(<<[key |-> "user", shape |-> NestedShape]>>)
    /\ validation.out.envelope = "ok"
    /\ validation.out.valid

(***************************************************************************)
(* Properties of the timed request harness.                                *)
(***************************************************************************)
Issued == harness.phase \notin {"idle", "args"}

Exited == harness.phase \in {"returned", "threw"}

\* C18: a request whose method is GET, in any letter case or by default,
\* is handed to fetch without a body whatever body was supplied; for another
\* method a supplied non-empty body is sent, a string as it is and another
\* value serialized.
C18_GetCarriesNoBody ==
    Issued =>
        /\ FetchMethod(harness.method) = MethodGET => ~harness.options.body.present
        /\ (FetchMethod(harness.method) # MethodGET /\ harness.body \in {"string", "object"}) =>
              harness.options.body =
                 [present |-> TRUE, text |-> IF harness.body = "string" THEN "as-is" ELSE "JSON.stringify"]

\* C19: once the timer has fired the call is aborted and the harness ends
\* with the abort error, never with a response; the timer is armed with the
\* given timeout, 30000 ms when none is given; after every exit the timer
\* is no longer pending; and a call in flight always comes to an exit.
C19_TimeoutAborts ==
    /\ [](harness.timer = "fired" =>
            /\ harness.aborted
            /\ harness.phase \in {"fetch", "body", "threw"}
            /\ harness.phase = "threw" => harness.result = "AbortError")
    /\ [](Issued => harness.delay = IF harness.timeout.defined THEN harness.timeout.ms ELSE 30000)
    /\ [](Exited => harness.timer \in {"cleared", "fired"})
    /\ [][Exited => harness'.timer = harness.timer]_vars
    /\ (harness.timer = "fired" ~> (harness.phase = "threw" /\ harness.result = "AbortError"))
    /\ (Issued ~> Exited)

\* The timer fired while the response body was being read (no timeout was
\* given) and the harness threw the abort error.
C19_Witness ==
    /\ harness.phase = "threw"
    /\ harness.result = "AbortError"
    /\ harness.timer = "fired"
    /\ ~harness.timeout.defined
    /\ harness.delay = 30000

(***************************************************************************)
(* Properties of performance_test.                                         *)
(***************************************************************************)
\* The answers to the requests that were issued, in the order of issue.
AnswersGiven == [k \in 1..perf.issued |-> Answer(perf.plan, k)]

AllSucceeded == \A k \in 1..perf.issued : AnswersGiven[k].ok

DurationsGiven == [k \in 1..perf.issued |-> AnswersGiven[k].duration]

RECURSIVE SumOf(_)
SumOf(ds) == IF ds = <<>> THEN 0 ELSE ds[1] + SumOf(Tail(ds))

\* C20: when the N >= 1 requests of a run all succeed with durations
\* d_1..d_N, the statistics are successfulRequests = N, failedRequests = 0,
\* times = [d_1..d_N], averageTime = (d_1+...+d_N)/N, minTime the least
\* and maxTime the greatest of the d_i.
C20_AggregateOfSuccesses ==
    (perf.phase = "done" /\ perf.issued >= 1 /\ AllSucceeded) =>
        LET N == perf.issued
            ds == DurationsGiven
            st == perf.stats
        IN  /\ st.successfulRequests = N
            /\ st.failedRequests = 0
            /\ st.times = ds
            /\ st.averageTime.kind = "number"
            /\ st.averageTime.num * N = SumOf(ds) * st.averageTime.den
            /\ st.minTime.kind = "number" /\ st.minTime.den = 1
            /\ st.minTime.num \in Range(ds) /\ \A k \in 1..N : st.minTime.num <= ds[k]
            /\ st.maxTime.kind = "number" /\ st.maxTime.den = 1
            /\ st.maxTime.num \in Range(ds) /\ \A k \in 1..N : st.maxTime.num >= ds[k]

\* Durations [10, 20, 30]: average 20, min 10, max 30, 3 successes.
C20_Witness ==
    /\ perf.phase = "done"
    /\ perf.stats.times = <<10, 20, 30>>
    /\ perf.stats.averageTime.num = 20 * perf.stats.averageTime.den
    /\ perf.stats.minTime.num = 10
    /\ perf.stats.maxTime.num = 30
    /\ perf.stats.successfulRequests = 3
    /\ perf.stats.failedRequests = 0

(***************************************************************************)
(* Properties of the loops of performance_test and test_endpoint.          *)
(***************************************************************************)
FailedAnswers == SelectSeq(AnswersGiven, LAMBDA a : ~a.ok)

SucceededAnswers == SelectSeq(AnswersGiven, LAMBDA a : a.ok)

\* C21: in both loops at most one sub-request is outstanding, request i+1
\* is issued only when requests 1..i have settled, and the durations and
\* the results are recorded in the order of issue.
C21_OneAtATime ==
    /\ perf.outstanding <= 1 /\ perf.issued = perf.i + perf.outstanding
    /\ endpoint.outstanding <= 1 /\ endpoint.issued = endpoint.i + endpoint.outstanding
    /\ perf.phase = "done" =>
          perf.stats.times = [k \in 1..Len(SucceededAnswers) |-> SucceededAnswers[k].duration]
    /\ endpoint.phase = "done" =>
          /\ Len(endpoint.summary.results) = Len(endpoint.tests)
          /\ \A k \in 1..Len(endpoint.tests) :
                endpoint.summary.results[k].name = endpoint.tests[k].name

\* The second scenario's request is outstanding and the first has settled.
C21_Witness ==
    /\ endpoint.phase = "pending"
    /\ endpoint.issued = 2
    /\ endpoint.i = 1
    /\ Len(endpoint.results) = 1

\* C22: a failed sub-request is recorded as one failed entry and the loop
\* goes on: no error leaves either loop, every sub-request is issued, and
\* the run ends with its report, also when every sub-request fails.
C22_FailureIsRecorded ==
    /\ perf.phase # "failed"
    /\ endpoint.phase # "failed"
    /\ perf.phase = "done" =>
          /\ perf.issued = IF perf.requests > 0 THEN perf.requests ELSE 0
          /\ Len(perf.stats.errors) = Len(FailedAnswers)
          /\ perf.stats.failedRequests = Len(FailedAnswers)
    /\ endpoint.phase = "done" =>
          /\ endpoint.issued = Len(endpoint.tests)
          /\ endpoint.summary.total = Len(endpoint.tests)
          /\ \A k \in 1..Len(endpoint.tests) :
                ~endpoint.plan[k].ok =>
                    /\ ~endpoint.summary.results[k].passed
                    /\ endpoint.summary.results[k].name = endpoint.tests[k].name
                    /\ endpoint.summary.results[k].error # ""

\* Two scenarios whose requests both failed: the summary counts 2 failed.
C22_Witness ==
    /\ endpoint.phase = "done"
    /\ Len(endpoint.tests) = 2
    /\ \A k \in 1..2 : ~endpoint.plan[k].ok
    /\ endpoint.summary.failed = 2
    /\ endpoint.summary.passed = 0

\* C28: for every requests argument the statistics satisfy
\* successfulRequests + failedRequests = totalRequests, with the two counts
\* the lengths of times and errors, and totalRequests sub-requests are
\* issued, 10 when the argument is absent or 0.
C28_CountsAddUp ==
    perf.phase = "done" =>
        /\ perf.stats.successfulRequests + perf.stats.failedRequests = perf.stats.totalRequests
        /\ perf.stats.successfulRequests = Len(perf.stats.times)
        /\ perf.stats.failedRequests = Len(perf.stats.errors)
        /\ perf.issued = perf.stats.totalRequests
        /\ (~perf.arg.defined \/ perf.arg.n = 0) => perf.stats.totalRequests = 10

(***************************************************************************)
(* Properties of the handlers that chain or guard commands.                *)
(***************************************************************************)
ExitedZero(b) == b.end = "exit" /\ b.code = 0

SuccessTexts == {"Staging successful. Current status:", "Commit successful!"}

\* C23: in git_stage and git_commit the second command is issued only
\* after the first one succeeded; when the first fails the second is never
\* issued and the envelope is a Failure without the success text.
C23_StopsAtFirstFailure ==
    (inv.server = "git-server.js" /\ inv.name \in {"git_stage", "git_commit"}) =>
        /\ inv.issued <= 2
        /\ (inv.pc = "await" /\ inv.issued = 2) =>
              inv.settled.kind = "exec" /\ ExitedZero(inv.settled.beh)
        /\ (inv.pc = "done" /\ inv.issued = 1) =>
              /\ ~ExitedZero(inv.settled.beh)
              /\ inv.env.isError
        /\ (inv.pc = "done" /\ inv.env.isError) =>
              Range(inv.env.content[1].text) \cap SuccessTexts = {}
        /\ (inv.pc = "done" /\ ~inv.env.isError) =>
              /\ inv.issued = 2
              /\ Head(inv.env.content[1].text) \in SuccessTexts

\* git commit exited with status 1: one command issued, a Failure envelope.
C23_Witness ==
    /\ inv.server = "git-server.js"
    /\ inv.name = "git_commit"
    /\ inv.pc = "done"
    /\ inv.issued = 1
    /\ inv.settled.beh.end = "exit" /\ inv.settled.beh.code = 1
    /\ inv.env.isError

\* C24: a failed port-check command never gives check_ports a Failure
\* envelope: the failure reads "port appears to be free", and a success
\* with empty output reads "no process found".
C24_PortCheckFailureIsFree ==
    (inv.server = "devtools-server.js" /\ inv.name = "check_ports" /\ inv.pc = "done") =>
        /\ inv.env.isError => inv.issued = 0
        /\ (inv.issued = 1 /\ ~ExitedZero(inv.settled.beh)) =>
              /\ ~inv.env.isError
              /\ inv.env.content[1].text = <<"Port appears to be free">>
        /\ (inv.issued = 1 /\ ExitedZero(inv.settled.beh) /\ inv.settled.beh.stdout = "") =>
              /\ ~inv.env.isError
              /\ inv.env.content[1].text = <<"No process found using port">>

\* The command could not be spawned and the port is reported free.
C24_Witness ==
    /\ inv.server = "devtools-server.js"
    /\ inv.name = "check_ports"
    /\ inv.pc = "done"
    /\ inv.issued = 1
    /\ inv.settled.beh.end = "spawn-error"
    /\ ~inv.env.isError

(***************************************************************************)
(* Properties of the pools and of the routing by dbType.                   *)
(***************************************************************************)
QueryTools == {"execute_query", "get_schema", "get_table_stats"}

\* C25: at most one pool object per engine is ever constructed, under
\* every interleaving of handlers, and every handler that uses an engine
\* uses the one pool the module variable refers to.
C25_OnePoolPerEngine ==
    /\ db.pgMade <= 1
    /\ db.mysqlMade <= 1
    /\ \A h \in Handlers :
          /\ "pg" \in db.handlers[h].touched => db.handlers[h].pool = pgPool
          /\ (db.handlers[h].pool # 0 /\ "mysql" \in db.handlers[h].touched) =>
                db.handlers[h].pool = mysqlPool

\* C30: execute_query, get_schema and get_table_stats touch the PostgreSQL
\* pool exactly when dbType is "postgres" and the MySQL pool for every
\* other or absent dbType, never both; generate_migration touches neither.
C30_RoutingByDbType ==
    \A h \in Handlers :
        LET it == db.handlers[h]
            postgres == it.args.defined /\ HasArg(it.args, "dbType")
                        /\ it.args.bag["dbType"] = "postgres"
        IN  it.pc # "idle" =>
              /\ Cardinality(it.touched) <= 1
              /\ (it.name \in QueryTools /\ it.args.defined) =>
                    it.touched = IF postgres THEN {"pg"} ELSE {"mysql"}
              /\ it.name = "generate_migration" => it.touched = {}
              /\ ~it.args.defined => it.touched = {}

\* A get_schema with a dbType outside the enum has queried the MySQL pool.
C30_Witness ==
    \E h \in Handlers :
        /\ db.handlers[h].name = "get_schema"
        /\ db.handlers[h].args.defined
        /\ HasArg(db.handlers[h].args, "dbType")
        /\ db.handlers[h].args.bag["dbType"] = "sqlite"
        /\ db.handlers[h].pc = "done"
        /\ ~db.handlers[h].env.isError
        /\ db.handlers[h].touched = {"mysql"}
        /\ db.handlers[h].pool = mysqlPool

(***************************************************************************)
(* Properties of the registry.                                             *)
(***************************************************************************)
Distinct(names) == \A i, j \in 1..Len(names) : names[i] = names[j] => i = j

\* The switch of server s has a case for the name: the call does not reach
\* the default label when it is dispatched.
HasCase(s, name) ==
    \E a \in ArgumentBags(name) :
        CallToolUncaught(s, name, a, 0, Locals, NoSettlement, Globals) # UnknownTool(name)

\* C26: the names of a listing are pairwise distinct, and every listing of
\* a server equals its first one whatever was dispatched in between.
C26_ListingIsConstant ==
    listed.first # <<>> =>
        /\ Distinct(listed.last)
        /\ listed.last = listed.first

\* The tools have been listed and a call has ended with a Failure envelope.
C26_Witness ==
    /\ listed.first # <<>>
    /\ inv.pc = "done"
    /\ inv.env.isError

\* C27: the names a server lists are the names its switch has a case for:
\* a call of a listed name is dispatched to its case, a call of any other
\* name reaches the default label.
C27_ListedIffHandled ==
    listed.first # <<>> =>
        /\ \A name \in ToolNames :
              name \in Range(listed.last) <=> HasCase(listed.server, name)
        /\ (inv.pc = "done" /\ inv.issued = 0) =>
              (inv.env.content[1].text = UnknownToolText(inv.name)
                 <=> inv.name \notin Range(listed.last))

\* The older git server, which lists no git_stage, was asked for it.
C27_Witness ==
    /\ listed.server = "part_002"
    /\ listed.first # <<>>
    /\ inv.name = "git_stage"
    /\ inv.pc = "done"
    /\ inv.env.isError

(***************************************************************************)
(* What the validator leaves unchecked.                                    *)
(***************************************************************************)
DeclaredKeys ==
    IF validation.schema.properties.defined
    THEN {Declared[i].key : i \in 1..Len(Declared)}
    ELSE {}

\* C29: a missing-required error names a declared property only, a
\* required name that is not declared is never checked, a shape that is not
\* of type "object" or has no properties gives no error for any value, and
\* there are never more errors than declared properties.
C29_OnlyDeclaredAreChecked ==
    (validation.phase = "done" /\ validation.schema.defined) =>
        /\ \A i \in 1..Len(validation.out.errors) :
              /\ validation.out.errors[i].path \in DeclaredKeys
              /\ validation.out.errors[i].kind = "Missing required field" =>
                    ListedRequired(validation.out.errors[i].path)
        /\ \A key \in Keys \ DeclaredKeys : ErrorsAt(key) = <<>>
        /\ (validation.schema.type # "object" \/ ~validation.schema.properties.defined) =>
              /\ validation.out.envelope = "ok"
              /\ validation.out.valid
              /\ validation.out.errors = <<>>
        /\ Len(validation.out.errors) <= Cardinality(DeclaredKeys)

\* required lists user, properties declares id alone, the value is {}:
\* the report is valid with no error.
C29_Witness ==
    /\ validation.phase = "done"
    /\ validation.response = [tag |-> "object", fields |-> NoTopFields]
    /\ validation.schema.type = "object"
    /\ validation.schema.properties = Present(<<[key |-> "id", shape |-> PropShape("number", Absent, Absent)]>>)
    /\ validation.schema.required = Present(<<"user">>)
    /\ validation.out.envelope = "ok"
    /\ validation.out.valid
    /\ validation.out.errors = <<>>

====
